---- MODULE Spec2Model ----
(***************************************************************************)
(* Model of the pub plugin (relicta-tech/plugin-pub): the pubspec.yaml     *)
(* editor and validator (pubspec.go) and the PrePublish / PostPublish      *)
(* pipelines (plugin.go, dart.go, credentials.go).                         *)
(*                                                                         *)
(* File contents are sequences of one-character strings, so the regular    *)
(* expression of UpdateVersion is evaluated character by character.        *)
(***************************************************************************)
EXTENDS Integers, Sequences, FiniteSets, TLC

(***************************************************************************)
(* Bounds of the model.                                                    *)
(***************************************************************************)
\* longest manifest, in lines, of the editor specification
MaxLines == 3
\* longest manifest, in lines, of the pipeline specification
MaxPipeLines == 2
\* longest prefix a failed (short) write leaves in the file
MaxShortWrite == 1

(***************************************************************************)
(* Characters and lines.                                                   *)
(***************************************************************************)
NL == "\n"

\* the literal the pattern of UpdateVersion starts with
VersionKey == <<"v", "e", "r", "s", "i", "o", "n", ":">>

\* the prefix of the replacement template, fmt.Sprintf("version: %s", version)
VersionPrefix == VersionKey \o <<" ">>

\* the lines manifests are built from
LName == <<"n", "a", "m", "e", ":", " ", "p">>
LVersion == VersionKey \o <<" ", "1">>
LVersionEmpty == VersionKey
LVersionBlank == VersionKey \o <<" ">>
LVersionNested == <<" ", " ">> \o VersionKey \o <<" ", "9">>
LComment == <<"#", " ", "c">>
LBlank == <<>>
LEnvironment == <<"e", "n", "v", "i", "r", "o", "n", "m", "e", "n", "t", ":">>
LSdk == <<" ", " ", "s", "d", "k", ":", " ", "3">>
LDependencies == <<"d", "e", "p", "e", "n", "d", "e", "n", "c", "i", "e", "s", ":">>
LFlutterDep == <<" ", " ", "f", "l", "u", "t", "t", "e", "r", ":", " ", "a">>
LInvalid == <<"n", "a", "m", "e", ":", " ", "[">>

\* the release versions a caller passes
Versions == {<<"2">>, <<"1">>}

RECURSIVE JoinLines(_)
\* the text whose lines are ls, each terminated by a newline
JoinLines(ls) ==
    IF ls = <<>> THEN <<>>
    ELSE Head(ls) \o <<NL>> \o JoinLines(Tail(ls))

\* the lines of a text: the pieces between newlines (the piece after the last
\* newline included, empty when the text ends with a newline)
SplitLines(t) ==
    LET nls == {i \in 1..Len(t) : t[i] = NL}
        \* the position of the n-th newline; 0 for n = 0, Len(t) + 1 past the last
        at(n) == IF n = 0 THEN 0
                 ELSE IF n > Cardinality(nls) THEN Len(t) + 1
                 ELSE CHOOSE p \in nls : Cardinality({q \in nls : q < p}) = n - 1
    IN  [n \in 1..(Cardinality(nls) + 1) |-> SubSeq(t, at(n - 1) + 1, at(n) - 1)]

SeqsUpTo(S, n) == UNION {[1..k -> S] : k \in 0..n}

\* drop the final newline of a text, if any
Unterminated(t) == IF t = <<>> THEN t ELSE SubSeq(t, 1, Len(t) - 1)

TextsOf(S, n) ==
    LET full == {JoinLines(ls) : ls \in SeqsUpTo(S, n)}
    IN  full \cup {Unterminated(t) : t \in full}

(***************************************************************************)
(* UpdateVersion: the pattern (?m)^version:\s*.+$ on the raw text.         *)
(***************************************************************************)
\* \s of Go's regexp (RE2): [\t\n\f\r ]
IsSpace(c) == c \in {" ", "\t", "\n", "\f", "\r"}

\* (?m)^ : at the beginning of the text or right after a newline
AtLineStart(t, i) == i = 1 \/ t[i - 1] = NL

HasKeyAt(t, i) ==
    /\ i + Len(VersionKey) - 1 <= Len(t)
    /\ SubSeq(t, i, i + Len(VersionKey) - 1) = VersionKey

\* the first position at or after j that holds no \s character (Len(t) + 1 if
\* none): where a greedy \s* started at j stops
SpaceRunEnd(t, j) ==
    IF j > Len(t) THEN j
    ELSE LET stops == {p \in j..Len(t) : ~IsSpace(t[p])} \cup {Len(t) + 1}
         IN  CHOOSE p \in stops : \A q \in stops : p <= q

\* the first position at or after k that holds a newline (Len(t) + 1 if none):
\* where a greedy .+ started at k stops, and where (?m)$ holds
LineEnd(t, k) ==
    IF k > Len(t) THEN k
    ELSE LET stops == {p \in k..Len(t) : t[p] = NL} \cup {Len(t) + 1}
         IN  CHOOSE p \in stops : \A q \in stops : p <= q

\* the positions at which .+ can start after \s* (started at j) has taken some
\* of the whitespace run: . matches any character but a newline
ValueStarts(t, j) ==
    {k \in j..SpaceRunEnd(t, j) : k <= Len(t) /\ t[k] # NL}

Max(S) == CHOOSE x \in S : \A y \in S : y <= x

\* the pattern matches at i: ^ holds, the key follows, and the greedy \s*
\* (giving back characters as needed) leaves .+ at least one character
MatchesAt(t, i) ==
    /\ AtLineStart(t, i)
    /\ HasKeyAt(t, i)
    /\ ValueStarts(t, i + Len(VersionKey)) # {}

\* the position right after the match that starts at i (leftmost-first
\* semantics: \s* keeps as much as it can, then .+ runs to the end of the line)
MatchEnd(t, i) ==
    LineEnd(t, Max(ValueStarts(t, i + Len(VersionKey))))

\* pattern.Match(data)
PatternMatch(t) == \E i \in 1..Len(t) : MatchesAt(t, i)

RECURSIVE ReplaceFrom(_, _, _)
\* the text from position i on with every match replaced: the matches are
\* taken leftmost first, and the search goes on right after each match
ReplaceFrom(t, i, repl) ==
    LET starts == {m \in i..Len(t) : MatchesAt(t, m)}
    IN  IF starts = {} THEN SubSeq(t, i, Len(t))
        ELSE LET m == CHOOSE x \in starts : \A y \in starts : x <= y
             IN  SubSeq(t, i, m - 1) \o repl \o ReplaceFrom(t, MatchEnd(t, m), repl)

\* pattern.ReplaceAll(data, "version: " + version); the versions of the model
\* hold no $, so the template expands to itself
PatternReplaceAll(t, version) == ReplaceFrom(t, 1, VersionPrefix \o version)

(***************************************************************************)
(* ParsePubspec: yaml.Unmarshal into the Pubspec struct, for the block     *)
(* mappings the model's manifests are written in (top-level keys at column *)
(* zero, one level of indented children, plain scalars, # comments).       *)
(***************************************************************************)
\* the zero value of the Pubspec struct; a map field is [isNil, m]
NilMap == [isNil |-> TRUE, m |-> <<>>]

ZeroPubspec ==
    [Name |-> <<>>, Version |-> <<>>, Description |-> <<>>,
     Environment |-> NilMap, Dependencies |-> NilMap, Flutter |-> NilMap]

\* the yaml keys of the struct's string fields and of its map fields
StringKeys ==
    {<<"n", "a", "m", "e">>, <<"v", "e", "r", "s", "i", "o", "n">>,
     <<"d", "e", "s", "c", "r", "i", "p", "t", "i", "o", "n">>}

MapKeys ==
    {<<"e", "n", "v", "i", "r", "o", "n", "m", "e", "n", "t">>,
     <<"d", "e", "p", "e", "n", "d", "e", "n", "c", "i", "e", "s">>,
     <<"f", "l", "u", "t", "t", "e", "r">>}

FieldOf(key) ==
    CASE key = <<"n", "a", "m", "e">> -> "Name"
      [] key = <<"v", "e", "r", "s", "i", "o", "n">> -> "Version"
      [] key = <<"d", "e", "s", "c", "r", "i", "p", "t", "i", "o", "n">> -> "Description"
      [] key = <<"e", "n", "v", "i", "r", "o", "n", "m", "e", "n", "t">> -> "Environment"
      [] key = <<"d", "e", "p", "e", "n", "d", "e", "n", "c", "i", "e", "s">> -> "Dependencies"
      [] key = <<"f", "l", "u", "t", "t", "e", "r">> -> "Flutter"
      [] OTHER -> "unknown"

RECURSIVE Indent(_)
\* the number of leading spaces of a line
Indent(l) == IF l = <<>> \/ Head(l) # " " THEN 0 ELSE 1 + Indent(Tail(l))

RECURSIVE TrimRight(_)
TrimRight(l) ==
    IF l = <<>> \/ l[Len(l)] # " " THEN l ELSE TrimRight(SubSeq(l, 1, Len(l) - 1))

\* a line without its leading and trailing spaces
Trim(l) == TrimRight(SubSeq(l, Indent(l) + 1, Len(l)))

\* the position of the first colon that ends a key (a colon followed by a
\* space or by the end of the line), 0 if there is none
KeyColon(c) ==
    LET ps == {i \in 1..Len(c) : c[i] = ":" /\ (i = Len(c) \/ c[i + 1] = " ")}
    IN  IF ps = {} THEN 0 ELSE CHOOSE i \in ps : \A j \in ps : i <= j

\* a flow sequence or mapping that is opened and never closed
BadScalar(v) ==
    /\ v # <<>>
    /\ \/ v[1] = "[" /\ v[Len(v)] # "]"
       \/ v[1] = "{" /\ v[Len(v)] # "}"

\* the map m with key k set to v
MapPut(mp, k, v) ==
    [isNil |-> FALSE,
     m |-> [x \in (DOMAIN mp.m) \cup {k} |-> IF x = k THEN v ELSE mp.m[x]]]

\* one line of the document, folded into the parse state
\* st = [err, pub, open (the field whose children may follow, or "none"),
\*       seen (the top-level keys read so far)]
ParseLine(st, l) ==
    LET c == Trim(l)
        colon == KeyColon(c)
        key == SubSeq(c, 1, colon - 1)
        val == Trim(SubSeq(c, colon + 1, Len(c)))
        field == FieldOf(key)
    IN  IF st.err THEN st
        ELSE IF c = <<>> \/ c[1] = "#" THEN st
        ELSE IF Indent(l) = 0
        THEN \* a top-level entry
             IF colon = 0 \/ BadScalar(val) \/ key \in st.seen
             THEN [st EXCEPT !.err = TRUE]
             ELSE IF key \in StringKeys
             THEN [st EXCEPT !.pub = [st.pub EXCEPT ![field] = val],
                             !.open = IF val = <<>> THEN field ELSE "none",
                             !.seen = st.seen \cup {key}]
             ELSE IF key \in MapKeys
             THEN IF val # <<>>
                  THEN [st EXCEPT !.err = TRUE]   \* a scalar cannot fill a map
                  ELSE [st EXCEPT !.open = field, !.seen = st.seen \cup {key}]
             ELSE \* a key the struct has no field for is ignored
                  [st EXCEPT !.open = IF val = <<>> THEN "unknown" ELSE "none",
                             !.seen = st.seen \cup {key}]
        ELSE \* an indented line: a child of the open entry
             IF st.open = "none" THEN [st EXCEPT !.err = TRUE]
             ELSE IF st.open = "unknown" THEN st
             ELSE IF st.open \in {"Name", "Version", "Description"}
             THEN IF colon # 0 \/ st.pub[st.open] # <<>>
                  THEN [st EXCEPT !.err = TRUE]   \* a mapping cannot fill a string
                  ELSE [st EXCEPT !.pub = [st.pub EXCEPT ![st.open] = c]]
             ELSE IF colon = 0 \/ BadScalar(val) \/ key \in DOMAIN st.pub[st.open].m
             THEN [st EXCEPT !.err = TRUE]
             ELSE [st EXCEPT
                     !.pub = [st.pub EXCEPT ![st.open] = MapPut(st.pub[st.open], key, val)]]

RECURSIVE ParseLines(_, _)
ParseLines(st, ls) ==
    IF ls = <<>> THEN st ELSE ParseLines(ParseLine(st, Head(ls)), Tail(ls))

\* yaml.Unmarshal(data, &pubspec): [err, pub]
Unmarshal(data) ==
    LET st == ParseLines([err |-> FALSE, pub |-> ZeroPubspec, open |-> "none",
                          seen |-> {}], SplitLines(data))
    IN  [err |-> st.err, pub |-> st.pub]

\* ParsePubspec(path): err is "nil", "read" (os.ReadFile failed) or "parse"
ParsePubspec(exists, data) ==
    LET u == Unmarshal(data)
    IN  IF ~exists THEN [err |-> "read", pub |-> ZeroPubspec]
        ELSE IF u.err THEN [err |-> "parse", pub |-> ZeroPubspec]
        ELSE [err |-> "nil", pub |-> u.pub]

(***************************************************************************)
(* ValidatePubspec and IsFlutterPackage.                                   *)
(***************************************************************************)
\* the description limits of pub.dev
MinDescription == 60
MaxDescription == 180

\* a rune that UTF-8 encodes in two bytes (such as U+00E9); every other
\* character of the model is ASCII
WideRune == "U+00E9"

\* len(s) of a Go string: its length in bytes, one per character and one
\* more per two-byte rune
ByteLen(s) == Len(s) + Cardinality({i \in 1..Len(s) : s[i] = WideRune})

NoError == [msg |-> "nil", n |-> 0]

Errorf(msg, n) == [msg |-> msg, n |-> n]

SdkKey == <<"s", "d", "k">>

\* the checks of ValidatePubspec with the version check moved first
ValidatePubspecVersionFirst(pubspec) ==
    IF pubspec.Version = <<>> THEN Errorf("version is required", 0)
    ELSE IF pubspec.Name = <<>> THEN Errorf("package name is required", 0)
    ELSE IF pubspec.Description = <<>>
    THEN Errorf("description is required for pub.dev", 0)
    ELSE IF ByteLen(pubspec.Description) < MinDescription
    THEN Errorf("description should be at least 60 characters (currently %d)",
                ByteLen(pubspec.Description))
    ELSE IF ByteLen(pubspec.Description) > MaxDescription
    THEN Errorf("description should be at most 180 characters (currently %d)",
                ByteLen(pubspec.Description))
    ELSE IF pubspec.Environment.isNil
    THEN Errorf("environment section is required", 0)
    ELSE IF SdkKey \notin DOMAIN pubspec.Environment.m
            \/ pubspec.Environment.m[SdkKey] = <<>>
    THEN Errorf("SDK constraint is required in environment section", 0)
    ELSE NoError

\* ValidatePubspec(pubspec): the error returned, NoError for nil
ValidatePubspec(pubspec) ==
    IF pubspec.Name = <<>> THEN Errorf("package name is required", 0)
    ELSE IF pubspec.Version = <<>> THEN Errorf("version is required", 0)
    ELSE IF pubspec.Description = <<>>
    THEN Errorf("description is required for pub.dev", 0)
    ELSE IF ByteLen(pubspec.Description) < MinDescription
    THEN Errorf("description should be at least 60 characters (currently %d)",
                ByteLen(pubspec.Description))
    ELSE IF ByteLen(pubspec.Description) > MaxDescription
    THEN Errorf("description should be at most 180 characters (currently %d)",
                ByteLen(pubspec.Description))
    ELSE IF pubspec.Environment.isNil
    THEN Errorf("environment section is required", 0)
    ELSE IF SdkKey \notin DOMAIN pubspec.Environment.m
            \/ pubspec.Environment.m[SdkKey] = <<>>
    THEN Errorf("SDK constraint is required in environment section", 0)
    ELSE NoError

FlutterKey == <<"f", "l", "u", "t", "t", "e", "r">>

\* a package that counts as a Flutter package as soon as its flutter section
\* is present, empty or not
IsFlutterPackageSectionPresent(pubspec) ==
    IF FlutterKey \in DOMAIN pubspec.Dependencies.m THEN TRUE
    ELSE IF ~pubspec.Flutter.isNil THEN TRUE
    ELSE FALSE

\* IsFlutterPackage(pubspec)
IsFlutterPackage(pubspec) ==
    IF FlutterKey \in DOMAIN pubspec.Dependencies.m THEN TRUE
    ELSE IF Cardinality(DOMAIN pubspec.Flutter.m) > 0 THEN TRUE
    ELSE FALSE

(***************************************************************************)
(* UpdateVersion.                                                          *)
(***************************************************************************)
\* what os.WriteFile can leave behind when it fails: the old content (the
\* open failed) or a prefix of the new content (truncated, then the write
\* stopped short)
FailedWrites(data, newData) ==
    {data} \cup {SubSeq(newData, 1, n) : n \in {k \in 0..MaxShortWrite : k < Len(newData)}}

\* pattern.Match(data) replaced by a test that always succeeds
UpdateVersionNoMatchCheck(exists, data, version) ==
    IF ~exists
    THEN {[err |-> "failed to read pubspec.yaml", exists |-> FALSE, file |-> data,
           wrote |-> FALSE]}
    ELSE {[err |-> "nil", exists |-> TRUE, file |-> PatternReplaceAll(data, version),
           wrote |-> TRUE]}
         \cup {[err |-> "failed to write pubspec.yaml", exists |-> TRUE, file |-> f,
                 wrote |-> TRUE] :
                 f \in FailedWrites(data, PatternReplaceAll(data, version))}

\* UpdateVersion(path, version): the outcomes the call can have, each with the
\* error it returns, the file it leaves and whether os.WriteFile was called
UpdateVersion(exists, data, version) ==
    IF ~exists
    THEN {[err |-> "failed to read pubspec.yaml", exists |-> FALSE, file |-> data,
           wrote |-> FALSE]}
    ELSE IF ~PatternMatch(data)
    THEN {[err |-> "version field not found in pubspec.yaml", exists |-> TRUE,
           file |-> data, wrote |-> FALSE]}
    ELSE {[err |-> "nil", exists |-> TRUE, file |-> PatternReplaceAll(data, version),
           wrote |-> TRUE]}
         \cup {[err |-> "failed to write pubspec.yaml", exists |-> TRUE, file |-> f,
                 wrote |-> TRUE] :
                 f \in FailedWrites(data, PatternReplaceAll(data, version))}

(***************************************************************************)
(* State.                                                                  *)
(***************************************************************************)
VARIABLES
    fileExists,   \* pubspec.yaml exists and is readable
    file,         \* the content of pubspec.yaml
    file0,        \* its content when the current call or invocation began
    pc,           \* the position of the current hook invocation
    hook,         \* req.Hook
    cfg,          \* the *Config of the invocation
    version,      \* releaseCtx.Version
    pubspec,      \* the result of ParsePubspec in the invocation
    dart,         \* the DartCLI of the invocation
    events,       \* the file writes and external commands of the invocation
    resp,         \* what the hook returned: the response and the Go error
    call          \* the last direct call of a function and what it returned

vars ==
    <<fileExists, file, file0, pc, hook, cfg, version, pubspec, dart, events,
      resp, call>>

pipeVars == <<pc, hook, cfg, version, pubspec, dart, events, resp>>

TestConfigDefault == [Platform |-> "vm", Concurrency |-> 4, Coverage |-> FALSE]

\* the Config parseConfig builds from an empty map
DefaultConfig ==
    [PubspecPath |-> "pubspec.yaml", UpdateVersion |-> TRUE,
     CredentialsPath |-> "", AccessToken |-> "",
     HostedURL |-> "", Validate |-> TRUE, Analyze |-> TRUE, FormatCheck |-> TRUE,
     Test |-> TRUE, TestConfig |-> TestConfigDefault, DryRunValidate |-> TRUE,
     Force |-> TRUE, Exclude |-> <<>>, DryRun |-> FALSE]

NoResp ==
    [returned |-> FALSE, Success |-> FALSE, Message |-> "", args |-> <<>>,
     err |-> "nil"]

NoCall == [op |-> "none"]

NewDartCLI == [credentials |-> [isNil |-> TRUE, AccessToken |-> ""], hostedURL |-> ""]

\* no hook invocation is in progress
PipeIdle ==
    /\ pc = "idle"
    /\ hook = "none"
    /\ cfg = DefaultConfig
    /\ version = <<>>
    /\ pubspec = ZeroPubspec
    /\ dart = NewDartCLI
    /\ events = <<>>
    /\ resp = NoResp

(***************************************************************************)
(* The editor on its own: UpdateVersion called on a manifest.              *)
(***************************************************************************)
EditLineSet ==
    {LName, LVersion, LVersionEmpty, LVersionBlank, LVersionNested, LComment,
     LBlank}

InitEdit ==
    /\ fileExists \in BOOLEAN
    /\ file \in TextsOf(EditLineSet, MaxLines)
    /\ fileExists = FALSE => file = <<>>
    /\ file0 = file
    /\ call = NoCall
    /\ PipeIdle

\* the versions UpdateVersion is called with: a release version, or the
\* empty string of a release context that carries none
EditVersions == Versions \cup {<<>>}

CallUpdateVersion ==
    /\ call.op = "none"
    /\ \E v \in EditVersions :
         \E out \in UpdateVersion(fileExists, file, v) :
           /\ file' = out.file
           /\ fileExists' = out.exists
           /\ call' = [op |-> "UpdateVersion", version |-> v, err |-> out.err,
                        wrote |-> out.wrote]
    /\ file0' = file
    /\ UNCHANGED pipeVars

\* UpdateVersion called once more, with the same version, on the file a
\* successful call has left; once is that file
CallUpdateVersionAgain ==
    /\ call.op = "UpdateVersion"
    /\ call.err = "nil"
    /\ \E out \in UpdateVersion(fileExists, file, call.version) :
         /\ file' = out.file
         /\ fileExists' = out.exists
         /\ call' = [op |-> "UpdateVersionAgain", version |-> call.version,
                      err |-> out.err, wrote |-> out.wrote, once |-> file]
    /\ UNCHANGED file0
    /\ UNCHANGED pipeVars

NextEdit == CallUpdateVersion \/ CallUpdateVersionAgain

SpecEdit == InitEdit /\ [][NextEdit]_vars

(***************************************************************************)
(* The validator on its own: ValidatePubspec called on a Pubspec.          *)
(***************************************************************************)
\* the most two-byte runes a description of the model holds
MaxWideRunes == 1

\* a description of n characters, the first k of them two-byte runes
Desc(n, k) == [i \in 1..n |-> IF i <= k THEN WideRune ELSE "d"]

DescLens ==
    {0, 1, MinDescription - 1, MinDescription, MinDescription + 1,
     MaxDescription - 1, MaxDescription, MaxDescription + 1}

Descriptions == {Desc(n, k) : n \in DescLens, k \in 0..MaxWideRunes}

Environments ==
    {NilMap,
     [isNil |-> FALSE, m |-> <<>>],
     [isNil |-> FALSE, m |-> [x \in {SdkKey} |-> <<>>]],
     [isNil |-> FALSE, m |-> [x \in {SdkKey} |-> <<"3">>]],
     [isNil |-> FALSE, m |-> [x \in {FlutterKey} |-> <<"3">>]]}

Pubspecs ==
    [Name : {<<>>, <<"p">>}, Version : {<<>>, <<"1">>}, Description : Descriptions,
     Environment : Environments, Dependencies : {NilMap}, Flutter : {NilMap}]

InitValidate ==
    /\ fileExists = FALSE
    /\ file = <<>>
    /\ file0 = <<>>
    /\ call = NoCall
    /\ PipeIdle

CallValidatePubspec ==
    /\ call.op = "none"
    /\ \E p \in Pubspecs :
         call' = [op |-> "ValidatePubspec", pubspec |-> p, err |-> ValidatePubspec(p)]
    /\ UNCHANGED <<fileExists, file, file0>>
    /\ UNCHANGED pipeVars

NextValidate == CallValidatePubspec

SpecValidate == InitValidate /\ [][NextValidate]_vars

(***************************************************************************)
(* The hooks: Execute, executePrePublish, executePostPublish.              *)
(***************************************************************************)
PipeLineSet ==
    {LName, LVersion, LVersionEmpty, LComment, LDependencies, LFlutterDep,
     LInvalid}

\* a description of exactly the shortest accepted length
LDescription ==
    <<"d", "e", "s", "c", "r", "i", "p", "t", "i", "o", "n", ":", " ">>
    \o Desc(MinDescription, 0)

\* a manifest that passes every rule of ValidatePubspec
ValidManifest == JoinLines(<<LName, LVersion, LDescription, LEnvironment, LSdk>>)

PipeTexts ==
    {JoinLines(ls) : ls \in SeqsUpTo(PipeLineSet, MaxPipeLines)} \cup {ValidManifest}

\* the Configs of the model: a hook's Config varies in the fields the hook reads
\* the test_config values of the model: the defaults and one that changes
\* every field
TestConfigs ==
    {TestConfigDefault, [Platform |-> "chrome", Concurrency |-> 1, Coverage |-> TRUE]}

PreConfigs ==
    {c \in {[DefaultConfig EXCEPT !.UpdateVersion = u, !.Analyze = a,
                                  !.FormatCheck = f, !.Test = t,
                                  !.DryRunValidate = d, !.TestConfig = tc] :
              u \in BOOLEAN, a \in BOOLEAN, f \in BOOLEAN, t \in BOOLEAN,
              d \in BOOLEAN, tc \in TestConfigs} :
       ~c.Test => c.TestConfig = TestConfigDefault}

PostConfigs ==
    {c \in {[DefaultConfig EXCEPT !.AccessToken = t, !.HostedURL = h, !.Force = f,
                                  !.CredentialsPath = p] :
              t \in {"", "cfgtoken"}, h \in {"", "https://pub.example"},
              f \in BOOLEAN, p \in {"", "/run/credentials.json"}} :
       c.AccessToken # "" => c.CredentialsPath = ""}

\* time.Now().Unix() when PostPublish runs
PublishTime == 2

\* the "expiration" values of a credentials file that has the key: a time
\* before and a time after the publish
FileExpirations == {PublishTime - 1, PublishTime + 1}

\* what LoadCredentials can return: a read error, a parse error, or the
\* credentials of the file; a file without the "expiration" key leaves
\* Expiration 0, and its record has no Expiration field
LoadCredentialsResults ==
    {[err |-> "failed to read credentials", isNil |-> TRUE, AccessToken |-> ""],
     [err |-> "failed to parse credentials", isNil |-> TRUE, AccessToken |-> ""],
     [err |-> "nil", isNil |-> FALSE, AccessToken |-> "filetoken"],
     [err |-> "nil", isNil |-> FALSE, AccessToken |-> ""]}
    \cup {[err |-> "nil", isNil |-> FALSE, AccessToken |-> "filetoken",
            Expiration |-> e] : e \in FileExpirations}

\* the *PubCredentials of a result of LoadCredentials
LoadedCredentials(r) == [x \in (DOMAIN r) \ {"err"} |-> r[x]]

\* the errors of cmd.Run as DartCLI.run and Publish return them: nil, the exit
\* status alone, the trimmed stderr text before it, or the kill of a cancelled
\* context
RunErrors == {"nil", "exit status 1", "stderr: exit status 1", "signal: killed"}

\* an external command (or a file operation), to be run
Command(argv, env) == [argv |-> argv, env |-> env]

\* the record of an operation that was run and of the error it returned
Ran(cmd, err) == [argv |-> cmd.argv, env |-> cmd.env, err |-> err]

WriteFileOp == Command(<<"os.WriteFile", "pubspec.yaml">>, {})

\* the file LoadCredentials(path) reads: the default one for the empty path
CredentialsFile(path) ==
    IF path = "" THEN "~/.pub-cache/credentials.json" ELSE path

ReadCredentialsOp(path) == Command(<<"os.ReadFile", CredentialsFile(path)>>, {})

\* the errors of cmd.Run when ctx is cancelled while the command runs:
\* exec.CommandContext kills the process, and Run returns its exit error, or
\* ctx.Err() when the process had just exited cleanly
CancelErrors == {"signal: killed", "context canceled"}

\* what a run of an external command can come to: an error of RunErrors with
\* ctx live throughout, or an error of CancelErrors with ctx cancelled
RunOutcomes ==
    [err : RunErrors, cancelled : {FALSE}] \cup [err : CancelErrors, cancelled : {TRUE}]

\* the record of a command that was run to the outcome o
RanTo(cmd, o) ==
    IF o.cancelled
    THEN [argv |-> cmd.argv, env |-> cmd.env, err |-> o.err, cancelled |-> TRUE]
    ELSE Ran(cmd, o.err)

\* a hook returns (&plugin.ExecuteResponse{Success, Message}, err) with err
\* non-nil for a failure
RespondWithError(ok, msg, args) ==
    /\ resp' = [returned |-> TRUE, Success |-> ok, Message |-> msg, args |-> args,
                err |-> IF ok THEN "nil" ELSE "error"]
    /\ pc' = "done"

\* a hook returns (&plugin.ExecuteResponse{Success, Message}, nil)
Respond(ok, msg, args) ==
    /\ resp' = [returned |-> TRUE, Success |-> ok, Message |-> msg, args |-> args,
                err |-> "nil"]
    /\ pc' = "done"

\* a dry-run mode that the request alone decides
EffectiveConfigRequestOnly(c, reqDryRun) == [c EXCEPT !.DryRun = reqDryRun]

\* cfg.DryRun = cfg.DryRun || req.DryRun
EffectiveConfig(c, reqDryRun) == [c EXCEPT !.DryRun = c.DryRun \/ reqDryRun]

\* Execute(ctx, req): parseConfig, the dry-run flag of the request OR-ed in,
\* and the dispatch on the hook
Execute ==
    /\ pc = "idle"
    /\ call = NoCall
    /\ \E h \in {"PrePublish", "PostPublish", "PostPlan"} :
         \E c \in (IF h = "PrePublish" THEN PreConfigs
                   ELSE IF h = "PostPublish" THEN PostConfigs ELSE {DefaultConfig}) :
           \E cfgDry \in BOOLEAN, reqDry \in BOOLEAN, v \in Versions :
             /\ hook' = h
             /\ cfg' = EffectiveConfig([c EXCEPT !.DryRun = cfgDry], reqDry)
             /\ version' = v
             /\ pubspec' = ZeroPubspec
             /\ dart' = NewDartCLI
             /\ events' = <<>>
             /\ file0' = file
             /\ CASE h = "PrePublish" -> pc' = "pre_parse" /\ resp' = NoResp
                  [] h = "PostPublish" -> pc' = "post_parse" /\ resp' = NoResp
                  [] OTHER -> Respond(TRUE, "Hook %s not handled by pub plugin", <<h>>)
    /\ UNCHANGED <<fileExists, file, call>>

\* the wrapped error of ParsePubspec
ParseCause(err) ==
    IF err = "read" THEN "failed to read pubspec.yaml" ELSE "failed to parse pubspec.yaml"

\* ParsePubspec at the head of a hook; a failure returns at once
ParseStep(at, next) ==
    /\ pc = at
    /\ LET r == ParsePubspec(fileExists, file)
       IN  IF r.err # "nil"
           THEN /\ Respond(FALSE, "Failed to parse pubspec.yaml: %v",
                           <<ParseCause(r.err)>>)
                /\ UNCHANGED pubspec
           ELSE /\ pubspec' = r.pub
                /\ pc' = next
                /\ UNCHANGED resp
    /\ UNCHANGED <<fileExists, file, file0, hook, cfg, version, dart, events, call>>

PreParse == ParseStep("pre_parse", "pre_update")

\* a gate that ignores the dry-run mode
GateModeNoDryRun(enabled, dryRun) == IF ~enabled THEN "skip" ELSE "execute"

\* a gate that ignores its flag
GateModeAlwaysOn(enabled, dryRun) == IF dryRun THEN "simulate" ELSE "execute"

\* if cfg.X { if cfg.DryRun { log } else { act } }
GateMode(enabled, dryRun) ==
    IF ~enabled THEN "skip" ELSE IF dryRun THEN "simulate" ELSE "execute"

\* the version step: UpdateVersion(pubspecPath, version) unless skipped or
\* simulated
PreUpdateVersion ==
    /\ pc = "pre_update"
    /\ IF GateMode(cfg.UpdateVersion, cfg.DryRun) = "execute"
       THEN \E out \in UpdateVersion(fileExists, file, version) :
              /\ file' = out.file
              /\ fileExists' = out.exists
              /\ events' = IF out.wrote
                           THEN Append(events, Ran(WriteFileOp, out.err)) ELSE events
              /\ IF out.err # "nil"
                 THEN Respond(FALSE, "Failed to update version: %v", <<out.err>>)
                 ELSE pc' = "pre_analyze" /\ UNCHANGED resp
       ELSE /\ pc' = "pre_analyze"
            /\ UNCHANGED <<fileExists, file, events, resp>>
    /\ UNCHANGED <<file0, hook, cfg, version, pubspec, dart, call>>

\* a step that goes on to the next step after its command failed
CommandStepNoReturn(at, next, enabled, cmd, failure) ==
    /\ pc = at
    /\ IF GateMode(enabled, cfg.DryRun) = "execute"
       THEN \E e \in RunErrors :
              /\ events' = Append(events, Ran(cmd, e))
              /\ pc' = next
              /\ UNCHANGED resp
       ELSE /\ pc' = next
            /\ UNCHANGED <<events, resp>>
    /\ UNCHANGED <<fileExists, file, file0, hook, cfg, version, pubspec, dart, call>>

\* a step that puts the manifest back as it was when its command failed
CommandStepRollback(at, next, enabled, cmd, failure) ==
    /\ pc = at
    /\ IF GateMode(enabled, cfg.DryRun) = "execute"
       THEN \E e \in RunErrors :
              /\ events' = Append(events, Ran(cmd, e))
              /\ IF e # "nil"
                 THEN Respond(FALSE, failure, <<e>>) /\ file' = file0
                 ELSE pc' = next /\ UNCHANGED <<resp, file>>
       ELSE /\ pc' = next
            /\ UNCHANGED <<events, resp, file>>
    /\ UNCHANGED <<fileExists, file0, hook, cfg, version, pubspec, dart, call>>

\* a command step that runs its command again after a failure
CommandStepRetries(at, next, enabled, cmd, failure) ==
    /\ pc = at
    /\ IF GateMode(enabled, cfg.DryRun) = "execute"
       THEN \E e \in RunErrors :
              /\ events' = Append(events, Ran(cmd, e))
              /\ pc' = IF e # "nil" THEN at ELSE next
              /\ UNCHANGED resp
       ELSE /\ pc' = next
            /\ UNCHANGED <<events, resp>>
    /\ UNCHANGED <<fileExists, file, file0, hook, cfg, version, pubspec, dart, call>>

\* a step that runs one external command unless skipped or simulated; a
\* failure of the command returns at once
CommandStep(at, next, enabled, cmd, failure) ==
    /\ pc = at
    /\ IF GateMode(enabled, cfg.DryRun) = "execute"
       THEN \E o \in RunOutcomes :
              /\ events' = Append(events, RanTo(cmd, o))
              /\ IF o.err # "nil"
                 THEN Respond(FALSE, failure, <<o.err>>)
                 ELSE pc' = next /\ UNCHANGED resp
       ELSE /\ pc' = next
            /\ UNCHANGED <<events, resp>>
    /\ UNCHANGED <<fileExists, file, file0, hook, cfg, version, pubspec, dart, call>>

AnalyzeCmd == Command(<<"dart", "analyze", "--fatal-infos", "--fatal-warnings">>, {})

FormatCheckCmd == Command(<<"dart", "format", "--set-exit-if-changed", ".">>, {})

\* arguments with the concurrency passed on whenever it is not zero
TestArgsNonZero(tc) ==
    <<"test">>
    \o (IF tc.Platform # "" THEN <<"--platform", tc.Platform>> ELSE <<>>)
    \o (IF tc.Concurrency # 0 THEN <<"--concurrency", ToString(tc.Concurrency)>>
        ELSE <<>>)
    \o (IF tc.Coverage THEN <<"--coverage">> ELSE <<>>)

\* the arguments DartCLI.Test builds
TestArgs(tc) ==
    <<"test">>
    \o (IF tc.Platform # "" THEN <<"--platform", tc.Platform>> ELSE <<>>)
    \o (IF tc.Concurrency > 0 THEN <<"--concurrency", ToString(tc.Concurrency)>>
        ELSE <<>>)
    \o (IF tc.Coverage THEN <<"--coverage">> ELSE <<>>)

TestCmd(tc) == Command(<<"dart">> \o TestArgs(tc), {})

FlutterTestCmd == Command(<<"flutter", "test">>, {})

PublishDryRunCmd == Command(<<"dart", "pub", "publish", "--dry-run">>, {})

PreAnalyze ==
    CommandStep("pre_analyze", "pre_format", cfg.Analyze, AnalyzeCmd,
                "Analysis failed: %v")

PreFormatCheck ==
    CommandStep("pre_format", "pre_test", cfg.FormatCheck, FormatCheckCmd,
                "Format check failed: %v")

\* a test step that runs dart test whatever the package is
PreTestAlwaysDart ==
    CommandStep("pre_test", "pre_validate", cfg.Test, TestCmd(cfg.TestConfig),
                "Tests failed: %v")

PreTest ==
    IF IsFlutterPackage(pubspec)
    THEN CommandStep("pre_test", "pre_validate", cfg.Test, FlutterTestCmd,
                     "Flutter tests failed: %v")
    ELSE CommandStep("pre_test", "pre_validate", cfg.Test, TestCmd(cfg.TestConfig),
                     "Tests failed: %v")

PrePublishDryRun ==
    CommandStep("pre_validate", "pre_return", cfg.DryRunValidate, PublishDryRunCmd,
                "Dry-run validation failed: %v")

\* the message of the final return of executePrePublish
PreSuccessMessage(dryRun) == "Package validated successfully"

PreReturn ==
    /\ pc = "pre_return"
    /\ Respond(TRUE, PreSuccessMessage(cfg.DryRun), <<>>)
    /\ UNCHANGED <<fileExists, file, file0, hook, cfg, version, pubspec, dart,
                   events, call>>

\* a PostPublish that stamps the release version into the manifest it loads
PostParseBumpsVersion ==
    /\ pc = "post_parse"
    /\ file' = PatternReplaceAll(file, version)
    /\ pubspec' = ParsePubspec(fileExists, file).pub
    /\ pc' = "post_creds"
    /\ UNCHANGED <<fileExists, file0, hook, cfg, version, dart, events, resp, call>>

PostParse == ParseStep("post_parse", "post_creds")

\* a credentials step that fails the hook when the credentials do not load
PostCredentialsFailOnLoad ==
    /\ pc = "post_creds"
    /\ IF cfg.AccessToken # ""
       THEN /\ dart' = [credentials |-> [isNil |-> FALSE, AccessToken |-> cfg.AccessToken],
                        hostedURL |-> cfg.HostedURL]
            /\ pc' = "post_publish"
            /\ UNCHANGED <<events, resp>>
       ELSE \E r \in LoadCredentialsResults :
              /\ dart' = [credentials |-> [isNil |-> r.isNil, AccessToken |-> r.AccessToken],
                          hostedURL |-> cfg.HostedURL]
              /\ events' = Append(events, Ran(ReadCredentialsOp(cfg.CredentialsPath), r.err))
              /\ IF r.err # "nil"
                 THEN Respond(FALSE, "Failed to load credentials: %v", <<r.err>>)
                 ELSE pc' = "post_publish" /\ UNCHANGED resp
    /\ UNCHANGED <<fileExists, file, file0, hook, cfg, version, pubspec, call>>

\* the credentials and the hosted URL of the DartCLI
PostCredentials ==
    /\ pc = "post_creds"
    /\ IF cfg.AccessToken # ""
       THEN /\ dart' = [credentials |-> [isNil |-> FALSE, AccessToken |-> cfg.AccessToken],
                        hostedURL |-> cfg.HostedURL]
            /\ UNCHANGED events
       ELSE \E r \in LoadCredentialsResults :
              /\ dart' = [credentials |-> LoadedCredentials(r),
                          hostedURL |-> cfg.HostedURL]
              /\ events' = Append(events, Ran(ReadCredentialsOp(cfg.CredentialsPath), r.err))
    /\ pc' = "post_publish"
    /\ UNCHANGED <<fileExists, file, file0, hook, cfg, version, pubspec, resp, call>>

\* a publish that always forces
PublishCmdAlwaysForce(d, force) ==
    Command(<<"dart", "pub", "publish", "--force">>,
            (IF ~d.credentials.isNil /\ d.credentials.AccessToken # ""
             THEN {<<"PUB_TOKEN", d.credentials.AccessToken>>} ELSE {})
            \cup (IF d.hostedURL # "" THEN {<<"PUB_HOSTED_URL", d.hostedURL>>}
                  ELSE {}))

\* a publish that hands over the token of valid credentials only
PublishCmdValidOnly(d, force) ==
    Command(<<"dart", "pub", "publish">> \o (IF force THEN <<"--force">> ELSE <<>>),
            (IF /\ ~d.credentials.isNil
                /\ d.credentials.AccessToken # ""
                /\ ~(/\ "Expiration" \in DOMAIN d.credentials
                     /\ PublishTime > d.credentials.Expiration)
             THEN {<<"PUB_TOKEN", d.credentials.AccessToken>>} ELSE {})
            \cup (IF d.hostedURL # "" THEN {<<"PUB_HOSTED_URL", d.hostedURL>>}
                  ELSE {}))

\* the command and the environment DartCLI.Publish adds
PublishCmd(d, force) ==
    Command(<<"dart", "pub", "publish">> \o (IF force THEN <<"--force">> ELSE <<>>),
            (IF ~d.credentials.isNil /\ d.credentials.AccessToken # ""
             THEN {<<"PUB_TOKEN", d.credentials.AccessToken>>} ELSE {})
            \cup (IF d.hostedURL # "" THEN {<<"PUB_HOSTED_URL", d.hostedURL>>}
                  ELSE {}))

\* a publish step that ignores the dry-run mode
PostPublishIgnoresDryRun ==
    /\ pc = "post_publish"
    /\ \E e \in RunErrors :
         /\ events' = Append(events, Ran(PublishCmd(dart, cfg.Force), e))
         /\ IF e # "nil"
            THEN Respond(FALSE, "Publish failed: %v", <<e>>)
            ELSE Respond(TRUE, "Published %s@%s to pub.dev",
                         <<pubspec.Name, version>>)
    /\ UNCHANGED <<fileExists, file, file0, hook, cfg, version, pubspec, dart, call>>

PostPublish ==
    /\ pc = "post_publish"
    /\ IF cfg.DryRun
       THEN /\ Respond(TRUE, "[DRY-RUN] Would publish %s@%s to pub.dev",
                       <<pubspec.Name, version>>)
            /\ UNCHANGED events
       ELSE \E o \in RunOutcomes :
              /\ events' = Append(events, RanTo(PublishCmd(dart, cfg.Force), o))
              /\ IF o.err # "nil"
                 THEN Respond(FALSE, "Publish failed: %v", <<o.err>>)
                 ELSE Respond(TRUE, "Published %s@%s to pub.dev",
                              <<pubspec.Name, version>>)
    /\ UNCHANGED <<fileExists, file, file0, hook, cfg, version, pubspec, dart, call>>

\* a plugin that keeps the DartCLI of an invocation, credentials included,
\* for the next one
ReturnedKeepsClient ==
    /\ pc = "done"
    /\ pc' = "idle"
    /\ hook' = "none"
    /\ cfg' = DefaultConfig
    /\ version' = <<>>
    /\ pubspec' = ZeroPubspec
    /\ events' = <<>>
    /\ resp' = NoResp
    /\ file0' = file
    /\ UNCHANGED <<fileExists, file, dart, call>>

\* the response is handed to the host and the invocation's state is gone; the
\* next invocation starts from the files alone
Returned ==
    /\ pc = "done"
    /\ pc' = "idle"
    /\ hook' = "none"
    /\ cfg' = DefaultConfig
    /\ version' = <<>>
    /\ pubspec' = ZeroPubspec
    /\ dart' = NewDartCLI
    /\ events' = <<>>
    /\ resp' = NoResp
    /\ file0' = file
    /\ UNCHANGED <<fileExists, file, call>>

Init ==
    /\ fileExists \in BOOLEAN
    /\ file \in PipeTexts
    /\ fileExists = FALSE => file = <<>>
    /\ file0 = file
    /\ call = NoCall
    /\ PipeIdle

(***************************************************************************)
(* The Validate operation of the plugin: the Dart SDK lookup, ParsePubspec *)
(* and ValidatePubspec, their errors collected in one response.            *)
(***************************************************************************)
\* longest manifest, in lines, of the Validate specification
MaxValidateLines == 5

ValidateLineSet == {LName, LVersion, LDescription, LEnvironment, LSdk}

ValidateTexts == {JoinLines(ls) : ls \in SeqsUpTo(ValidateLineSet, MaxValidateLines)}

\* vb.AddError(field, message): one more error in the builder; arg is the
\* value the message was formatted with ("" if none)
AddError(vb, field, msg, arg) ==
    Append(vb, [Field |-> field, Message |-> msg, arg |-> arg])

\* the text of the number an error message carries
ErrorArg(e) == IF e.n = 0 THEN "" ELSE ToString(e.n)

\* a Validate that returns as soon as the Dart SDK is found missing
PluginValidateShortCircuit(dartInPath, exists, data) ==
    LET r == ParsePubspec(exists, data)
        e == ValidatePubspec(r.pub)
    IN  IF ~dartInPath
        THEN AddError(<<>>, "dart", "Dart SDK not found in PATH", "")
        ELSE IF r.err # "nil"
        THEN AddError(<<>>, "pubspec_path", "Invalid pubspec.yaml: %v", ParseCause(r.err))
        ELSE IF e # NoError
        THEN AddError(<<>>, "pubspec", e.msg, ErrorArg(e))
        ELSE <<>>

\* a Validate that files the rule errors under the path field too
PluginValidateOneField(dartInPath, exists, data) ==
    LET vb0 == IF ~dartInPath
               THEN AddError(<<>>, "dart", "Dart SDK not found in PATH", "")
               ELSE <<>>
        r == ParsePubspec(exists, data)
        e == ValidatePubspec(r.pub)
    IN  IF r.err # "nil"
        THEN AddError(vb0, "pubspec_path", "Invalid pubspec.yaml: %v", ParseCause(r.err))
        ELSE IF e # NoError
        THEN AddError(vb0, "pubspec_path", e.msg, ErrorArg(e))
        ELSE vb0

\* PubPlugin.Validate(ctx, config): the errors of the response, in the order
\* they were added (the Go error returned is always nil)
PluginValidate(dartInPath, exists, data) ==
    LET vb0 == IF ~dartInPath
               THEN AddError(<<>>, "dart", "Dart SDK not found in PATH", "")
               ELSE <<>>
        r == ParsePubspec(exists, data)
        e == ValidatePubspec(r.pub)
    IN  IF r.err # "nil"
        THEN AddError(vb0, "pubspec_path", "Invalid pubspec.yaml: %v", ParseCause(r.err))
        ELSE IF e # NoError
        THEN AddError(vb0, "pubspec", e.msg, ErrorArg(e))
        ELSE vb0

InitPluginValidate ==
    /\ fileExists \in BOOLEAN
    /\ file \in ValidateTexts
    /\ fileExists = FALSE => file = <<>>
    /\ file0 = file
    /\ call = NoCall
    /\ PipeIdle

\* one call of Validate; exec.LookPath("dart") finds the SDK or does not
CallValidate ==
    /\ call.op = "none"
    /\ \E dartInPath \in BOOLEAN :
         call' = [op |-> "Validate", dartInPath |-> dartInPath,
                  Errors |-> PluginValidate(dartInPath, fileExists, file),
                  err |-> "nil"]
    /\ UNCHANGED <<fileExists, file, file0>>
    /\ UNCHANGED pipeVars

NextPluginValidate == CallValidate

SpecPluginValidate == InitPluginValidate /\ [][NextPluginValidate]_vars

(***************************************************************************)
(* The plugin as the host drives it: Validate and Execute, one call at a   *)
(* time, on the same working directory.                                    *)
(***************************************************************************)
\* the host calls Validate between two hook invocations
HostValidate ==
    /\ pc = "idle"
    /\ CallValidate

\* the validation response is handed to the host
ValidateReturned ==
    /\ pc = "idle"
    /\ call.op = "Validate"
    /\ call' = NoCall
    /\ UNCHANGED <<fileExists, file, file0>>
    /\ UNCHANGED pipeVars

Next ==
    \/ Execute
    \/ PreParse
    \/ PreUpdateVersion
    \/ PreAnalyze
    \/ PreFormatCheck
    \/ PreTest
    \/ PrePublishDryRun
    \/ PreReturn
    \/ PostParse
    \/ PostCredentials
    \/ PostPublish
    \/ Returned
    \/ HostValidate
    \/ ValidateReturned

Spec == Init /\ [][Next]_vars

(***************************************************************************)
(* The plugin with its progress: once Execute has been called, the code of *)
(* the hook runs on, every external command returning.                     *)
(***************************************************************************)
\* the manifests of the progress specification: the valid one, one that
\* breaks the validation rules, one without a version, one that does not
\* parse
LiveTexts ==
    {ValidManifest, JoinLines(<<LName, LVersion>>), JoinLines(<<LName>>),
     JoinLines(<<LInvalid>>)}

InitLive ==
    /\ fileExists \in BOOLEAN
    /\ file \in LiveTexts
    /\ fileExists = FALSE => file = <<>>
    /\ file0 = file
    /\ call = NoCall
    /\ PipeIdle

\* the positions of a hook between the call of Execute and its return
HookPositions ==
    {"pre_parse", "pre_update", "pre_analyze", "pre_format", "pre_test",
     "pre_validate", "pre_return", "post_parse", "post_creds", "post_publish"}

\* control leaves the statement a running hook is at
HookAdvances ==
    /\ pc \in HookPositions
    /\ pc' \in (HookPositions \cup {"done"}) \ {pc}

\* a hook is sequential Go code without loops, and every statement returns
\* as long as the external command it waits for does: control never stays
\* at one statement of a running hook forever
SpecLive == InitLive /\ [][Next]_vars /\ WF_pc(HookAdvances)

(***************************************************************************)
(* The credentials on their own: CreateCredentialsFromToken, IsExpired and *)
(* IsValid, with time.Now().Unix() as an input.                            *)
(***************************************************************************)
\* the largest time, in seconds, of the credentials specification
MaxTime == 3

\* Unix times and expirations (int64: before and after the epoch)
Times == (0 - MaxTime)..MaxTime

Tokens == {"", "tok"}

PubCredentialsSet ==
    [AccessToken : Tokens, RefreshToken : {"", "refresh"},
     TokenEndpoint : {""}, Expiration : Times]

\* CreateCredentialsFromToken(token): every other field has its zero value
CreateCredentialsFromToken(token) ==
    [AccessToken |-> token, RefreshToken |-> "", TokenEndpoint |-> "",
     Expiration |-> 0]

\* credentials that count as expired at the second of their expiration
IsExpiredAtExpiration(c, now) ==
    IF c.Expiration = 0 THEN FALSE ELSE now >= c.Expiration

\* c.IsExpired() when time.Now().Unix() is now
IsExpired(c, now) ==
    IF c.Expiration = 0 THEN FALSE ELSE now > c.Expiration

\* c.IsValid() when time.Now().Unix() is now
IsValid(c, now) ==
    IF c.AccessToken = "" THEN FALSE ELSE ~IsExpired(c, now)

\* the start of a specification of pure functions: no manifest, no call made
InitPure ==
    /\ fileExists = FALSE
    /\ file = <<>>
    /\ file0 = <<>>
    /\ call = NoCall
    /\ PipeIdle

\* IsExpired and IsValid called on some credentials at some time
CallIsValid ==
    /\ call.op = "none"
    /\ \E c \in PubCredentialsSet, now \in Times :
         call' = [op |-> "IsValid", creds |-> c, now |-> now,
                  expired |-> IsExpired(c, now), valid |-> IsValid(c, now)]
    /\ UNCHANGED <<fileExists, file, file0>>
    /\ UNCHANGED pipeVars

\* credentials built from a token, and asked at some time
CallCreateCredentialsFromToken ==
    /\ call.op = "none"
    /\ \E token \in Tokens, now \in Times :
         LET c == CreateCredentialsFromToken(token)
         IN  call' = [op |-> "CreateCredentialsFromToken", token |-> token,
                      creds |-> c, now |-> now,
                      expired |-> IsExpired(c, now), valid |-> IsValid(c, now)]
    /\ UNCHANGED <<fileExists, file, file0>>
    /\ UNCHANGED pipeVars

NextCredentials == CallIsValid \/ CallCreateCredentialsFromToken

SpecCredentials == InitPure /\ [][NextCredentials]_vars

(***************************************************************************)
(* IsFlutterPackage on its own, called on a Pubspec.                       *)
(***************************************************************************)
\* the maps with keys among ks and values among vs, and the nil map
MapsOver(ks, vs) ==
    {NilMap} \cup {[isNil |-> FALSE, m |-> f] : f \in UNION {[K -> vs] : K \in SUBSET ks}}

DependencyMaps == MapsOver({FlutterKey, <<"h", "t", "t", "p">>}, {<<>>, <<"a">>})

FlutterSections ==
    MapsOver({<<"a", "s", "s", "e", "t", "s">>, <<"f", "o", "n", "t", "s">>},
             {<<>>, <<"a">>})

FlutterPubspecs ==
    [Name : {<<>>, <<"p">>}, Version : {<<"1">>}, Description : {<<>>},
     Environment : {NilMap}, Dependencies : DependencyMaps,
     Flutter : FlutterSections]

CallIsFlutterPackage ==
    /\ call.op = "none"
    /\ \E p \in FlutterPubspecs :
         call' = [op |-> "IsFlutterPackage", pubspec |-> p,
                  result |-> IsFlutterPackage(p)]
    /\ UNCHANGED <<fileExists, file, file0>>
    /\ UNCHANGED pipeVars

NextFlutter == CallIsFlutterPackage

SpecFlutter == InitPure /\ [][NextFlutter]_vars

(***************************************************************************)
(* parseConfig and the head of Execute on their own.  A raw configuration  *)
(* is a function from the keys it holds to their values; a float64 is      *)
(* written as its number of halves.                                        *)
(***************************************************************************)
\* the most keys a raw configuration of the model holds
MaxConfigKeys == 2

BoolKeys ==
    {"update_version", "validate", "analyze", "format_check", "test",
     "dry_run_validate", "force", "dry_run"}

\* the keys of the model's raw configurations, in some order
ConfigKeys ==
    <<"update_version", "validate", "analyze", "format_check", "test",
      "dry_run_validate", "force", "dry_run", "pubspec_path", "access_token",
      "test_config">>

\* the function f with key k set to v
With(f, k, v) == [x \in (DOMAIN f) \cup {k} |-> IF x = k THEN v ELSE f[x]]

EmptyRaw == [x \in {} |-> TRUE]

\* the values of raw["test_config"]: platform, concurrency (in halves: 2.0,
\* 2.5 and -1.5) and coverage, each present or not
TestConfigRaws ==
    LET base == {EmptyRaw, [x \in {"platform"} |-> "chrome"],
                 [x \in {"coverage"} |-> TRUE],
                 [x \in {"coverage", "platform"} |->
                    IF x = "platform" THEN "chrome" ELSE TRUE]}
    IN  base \cup {With(pv, "concurrency", h) : pv \in base, h \in {4, 5, -3}}

\* the values a key takes in the model
RawValues(k) ==
    IF k \in BoolKeys THEN BOOLEAN
    ELSE IF k = "pubspec_path" THEN {"packages/core/pubspec.yaml"}
    ELSE IF k = "access_token" THEN {"", "cfgtoken"}
    ELSE TestConfigRaws

RECURSIVE RawsOver(_, _)
\* the raw configurations over the keys ks that hold at most n keys
RawsOver(ks, n) ==
    IF ks = <<>> \/ n = 0 THEN {EmptyRaw}
    ELSE RawsOver(Tail(ks), n)
         \cup {With(f, Head(ks), v) : f \in RawsOver(Tail(ks), n - 1),
                                      v \in RawValues(Head(ks))}

RawConfigs == RawsOver(ConfigKeys, MaxConfigKeys)

\* the environment variables parseConfig names, "" for an unset one
Environs ==
    {[PUB_ACCESS_TOKEN |-> "", PUB_HOSTED_URL |-> ""],
     [PUB_ACCESS_TOKEN |-> "envtoken", PUB_HOSTED_URL |-> "https://pub.example"]}

\* parser.GetBool(key, default)
GetBool(raw, key, default) == IF key \in DOMAIN raw THEN raw[key] ELSE default

\* parser.GetString(key, envVar, default): the configured value, else the
\* value of the environment variable, else the default
GetString(raw, key, envValue, default) ==
    IF key \in DOMAIN raw /\ raw[key] # "" THEN raw[key]
    ELSE IF envValue # "" THEN envValue
    ELSE default

\* int(conc) of a float64 given in halves: truncation toward zero
FloatToInt(h) == IF h >= 0 THEN h \div 2 ELSE 0 - ((0 - h) \div 2)

\* the TestConfig parseConfig builds: the defaults, overridden by the
\* fields of raw["test_config"]
ParseTestConfig(raw) ==
    LET t == IF "test_config" \in DOMAIN raw THEN raw["test_config"] ELSE EmptyRaw
    IN  [Platform |-> IF "platform" \in DOMAIN t THEN t["platform"] ELSE "vm",
         Concurrency |-> IF "concurrency" \in DOMAIN t
                         THEN FloatToInt(t["concurrency"]) ELSE 4,
         Coverage |-> IF "coverage" \in DOMAIN t THEN t["coverage"] ELSE FALSE]

\* p.parseConfig(raw) under the environment env
parseConfig(raw, env) ==
    [PubspecPath |-> GetString(raw, "pubspec_path", "", "pubspec.yaml"),
     UpdateVersion |-> GetBool(raw, "update_version", TRUE),
     CredentialsPath |-> GetString(raw, "credentials_path", "", ""),
     AccessToken |-> GetString(raw, "access_token", env.PUB_ACCESS_TOKEN, ""),
     HostedURL |-> GetString(raw, "hosted_url", env.PUB_HOSTED_URL, ""),
     Validate |-> GetBool(raw, "validate", TRUE),
     Analyze |-> GetBool(raw, "analyze", TRUE),
     FormatCheck |-> GetBool(raw, "format_check", TRUE),
     Test |-> GetBool(raw, "test", TRUE),
     TestConfig |-> ParseTestConfig(raw),
     DryRunValidate |-> GetBool(raw, "dry_run_validate", TRUE),
     Force |-> GetBool(raw, "force", TRUE),
     Exclude |-> <<>>,
     DryRun |-> GetBool(raw, "dry_run", FALSE)]

\* the head of Execute: the configuration parsed and the dry-run flag of the
\* request OR-ed in
CallExecuteConfig ==
    /\ call.op = "none"
    /\ \E raw \in RawConfigs, env \in Environs, reqDryRun \in BOOLEAN :
         call' = [op |-> "Execute", raw |-> raw, env |-> env,
                  reqDryRun |-> reqDryRun, parsed |-> parseConfig(raw, env),
                  cfg |-> EffectiveConfig(parseConfig(raw, env), reqDryRun)]
    /\ UNCHANGED <<fileExists, file, file0>>
    /\ UNCHANGED pipeVars

NextConfig == CallExecuteConfig

SpecConfig == InitPure /\ [][NextConfig]_vars

(***************************************************************************)
(* The generic test runner on its own: the test_config of a raw            *)
(* configuration, parsed by parseConfig and turned into the arguments of   *)
(* dart test.                                                              *)
(***************************************************************************)
\* the largest concurrency, in absolute value, of the test-runner
\* specification
MaxConcurrency == 2

\* the values of raw["test_config"]: platform absent, empty or named,
\* concurrency absent or a float64 (in halves) on both sides of zero,
\* coverage absent, true or false
TestRunRaws ==
    LET platforms == {EmptyRaw} \cup {[x \in {"platform"} |-> pl] : pl \in {"", "vm", "chrome"}}
        withConc == platforms
                    \cup {With(t, "concurrency", h) :
                            t \in platforms,
                            h \in (0 - 2 * MaxConcurrency)..(2 * MaxConcurrency)}
    IN  withConc \cup {With(t, "coverage", cov) : t \in withConc, cov \in BOOLEAN}

\* parseConfig on a raw configuration that holds test_config, then
\* dart.Test(ctx, cfg.TestConfig)
CallTest ==
    /\ call.op = "none"
    /\ \E t \in TestRunRaws :
         LET tc == ParseTestConfig([x \in {"test_config"} |-> t])
         IN  call' = [op |-> "Test", raw |-> t, cfg |-> tc,
                      argv |-> TestCmd(tc).argv]
    /\ UNCHANGED <<fileExists, file, file0>>
    /\ UNCHANGED pipeVars

NextTest == CallTest

SpecTest == InitPure /\ [][NextTest]_vars

(***************************************************************************)
(* Properties.                                                             *)
(***************************************************************************)
StartsWith(l, prefix) ==
    Len(l) >= Len(prefix) /\ SubSeq(l, 1, Len(prefix)) = prefix

\* a line that starts at column zero with version:
IsTopVersionLine(l) == StartsWith(l, VersionKey)

\* ... and carries a value on the line
IsValuedVersionLine(l) ==
    /\ IsTopVersionLine(l)
    /\ \E i \in (Len(VersionKey) + 1)..Len(l) : ~IsSpace(l[i])

UpdateVersionSucceeded == call.op = "UpdateVersion" /\ call.err = "nil"

\* C1: for a manifest that contains a top-level version: line with a value, a
\* successful UpdateVersion(path, v) changes only that line, which becomes
\* "version: v"; the file keeps its lines, and every other line is identical
\* to the original
C1_OnlyVersionLineChanges ==
    LET old == SplitLines(file0)
        new == SplitLines(file)
    IN  (UpdateVersionSucceeded /\ \E i \in 1..Len(old) : IsValuedVersionLine(old[i]))
        => /\ Len(new) = Len(old)
           /\ \A i \in 1..Len(old) :
                IF IsValuedVersionLine(old[i])
                THEN new[i] = VersionPrefix \o call.version
                ELSE new[i] = old[i]

\* C2: UpdateVersion on a manifest none of whose lines starts at column zero
\* with version: returns the version-field-not-found error, performs no
\* write and leaves the file as it was
C2_NotFoundLeavesFile ==
    (/\ call.op = "UpdateVersion"
     /\ fileExists
     /\ \A i \in 1..Len(SplitLines(file0)) : ~IsTopVersionLine(SplitLines(file0)[i]))
    => /\ call.err = "version field not found in pubspec.yaml"
       /\ ~call.wrote
       /\ file = file0

\* a manifest whose only version: key is indented was refused
C2_Witness ==
    /\ call.op = "UpdateVersion"
    /\ fileExists
    /\ \A i \in 1..Len(SplitLines(file0)) : ~IsTopVersionLine(SplitLines(file0)[i])
    /\ \E i \in 1..Len(SplitLines(file0)) : SplitLines(file0)[i] = LVersionNested
    /\ call.err = "version field not found in pubspec.yaml"
    /\ file = file0

\* the seven rules of the validator in their order: whether the rule holds of
\* the Pubspec, and the error reported when it does not
ValidationRules(p) ==
    << <<p.Name # <<>>, Errorf("package name is required", 0)>>,
       <<p.Version # <<>>, Errorf("version is required", 0)>>,
       <<p.Description # <<>>, Errorf("description is required for pub.dev", 0)>>,
       <<ByteLen(p.Description) >= MinDescription,
         Errorf("description should be at least 60 characters (currently %d)",
                ByteLen(p.Description))>>,
       <<ByteLen(p.Description) <= MaxDescription,
         Errorf("description should be at most 180 characters (currently %d)",
                ByteLen(p.Description))>>,
       <<~p.Environment.isNil, Errorf("environment section is required", 0)>>,
       <<\E k \in DOMAIN p.Environment.m : k = SdkKey /\ p.Environment.m[k] # <<>>,
         Errorf("SDK constraint is required in environment section", 0)>> >>

FailingRules(p) == {i \in 1..7 : ~ValidationRules(p)[i][1]}

Min(S) == CHOOSE x \in S : \A y \in S : x <= y

\* C6: ValidatePubspec reports exactly the error of the first rule that fails,
\* in the order name, version, description, length >= 60, length <= 180
\* (lengths as len() measures them), environment, sdk; with name and version
\* both missing it is the name error; it returns nil iff all seven rules hold
C6_FirstFailingRule ==
    call.op = "ValidatePubspec"
    => /\ IF FailingRules(call.pubspec) = {}
          THEN call.err = NoError
          ELSE call.err = ValidationRules(call.pubspec)[Min(FailingRules(call.pubspec))][2]
       /\ (call.pubspec.Name = <<>> /\ call.pubspec.Version = <<>>)
          => call.err.msg = "package name is required"
       /\ call.err = NoError <=> FailingRules(call.pubspec) = {}

\* a Pubspec without name and without version was refused for its name
C6_Witness ==
    /\ call.op = "ValidatePubspec"
    /\ call.pubspec.Name = <<>>
    /\ call.pubspec.Version = <<>>
    /\ call.err.msg = "package name is required"

\* C7: with name, version and environment.sdk valid, ValidatePubspec accepts a
\* description iff its number of characters n satisfies 60 <= n <= 180; 59
\* characters are refused as too short with "(currently 59)", 181 characters
\* as too long with the actual length
C7_DescriptionCharacters ==
    (/\ call.op = "ValidatePubspec"
     /\ call.pubspec.Name # <<>>
     /\ call.pubspec.Version # <<>>
     /\ \E k \in DOMAIN call.pubspec.Environment.m :
          k = SdkKey /\ call.pubspec.Environment.m[k] # <<>>)
    => LET n == Len(call.pubspec.Description)
       IN  /\ call.err = NoError <=> (MinDescription <= n /\ n <= MaxDescription)
           /\ n = MinDescription - 1
              => call.err = Errorf("description should be at least 60 characters (currently %d)", n)
           /\ n = MaxDescription + 1
              => call.err = Errorf("description should be at most 180 characters (currently %d)", n)

(***************************************************************************)
(* Properties of the hooks.                                                *)
(***************************************************************************)
InPrePublish == hook = "PrePublish"

Failed == resp.returned /\ ~resp.Success

\* the step of PrePublish an operation belongs to: 1 the version update,
\* 2 analyze, 3 format check, 4 tests, 5 publish dry-run; 0 for any other
StepOfOp(e) ==
    CASE e.argv = WriteFileOp.argv -> 1
      [] e.argv = AnalyzeCmd.argv -> 2
      [] e.argv = FormatCheckCmd.argv -> 3
      [] e.argv = FlutterTestCmd.argv -> 4
      [] e.argv[1] = "dart" /\ e.argv[2] = "test" -> 4
      [] e.argv = PublishDryRunCmd.argv -> 5
      [] OTHER -> 0

\* the step a failure message names
StepOfMessage(msg) ==
    CASE msg = "Failed to update version: %v" -> 1
      [] msg = "Analysis failed: %v" -> 2
      [] msg = "Format check failed: %v" -> 3
      [] msg = "Flutter tests failed: %v" -> 4
      [] msg = "Tests failed: %v" -> 4
      [] msg = "Dry-run validation failed: %v" -> 5
      [] OTHER -> 0

\* the gate flag of a step
GateOf(c, k) ==
    CASE k = 1 -> c.UpdateVersion
      [] k = 2 -> c.Analyze
      [] k = 3 -> c.FormatCheck
      [] k = 4 -> c.Test
      [] k = 5 -> c.DryRunValidate

StepsOf(es) == [i \in 1..Len(es) |-> StepOfOp(es[i])]

EnabledSteps(c) == SelectSeq(<<1, 2, 3, 4, 5>>, LAMBDA k : GateOf(c, k))

\* the version step of this invocation wrote the file and returned nil
VersionBumped ==
    \E i \in 1..Len(events) : StepOfOp(events[i]) = 1 /\ events[i].err = "nil"

\* C3: PrePublish in dry-run mode, whatever the gates: the manifest is never
\* written, no external command is run, and the hook returns success
\* whenever the manifest parses; its only failure is the manifest-load failure
C3_DryRunSuppressesEffects ==
    (InPrePublish /\ cfg.DryRun)
    => /\ events = <<>>
       /\ file = file0
       /\ resp.returned
          => /\ resp.Success <=> ParsePubspec(fileExists, file0).err = "nil"
             /\ ~resp.Success => resp.Message = "Failed to parse pubspec.yaml: %v"

\* a dry run with every gate on returned success on a manifest the version
\* step would have changed
C3_Witness ==
    /\ InPrePublish
    /\ cfg.DryRun
    /\ \A k \in 1..5 : GateOf(cfg, k)
    /\ resp.returned
    /\ resp.Success
    /\ PatternMatch(file0)
    /\ PatternReplaceAll(file0, version) # file0
    /\ file = file0

\* C4: in PrePublish a failed operation is the last one of the invocation:
\* the hook returns at once an unsuccessful response that names the step of
\* the failed operation and embeds its error, and no later step has run
C4_FailFast ==
    InPrePublish
    => /\ \A i \in 1..Len(events) :
            events[i].err # "nil"
            => /\ i = Len(events)
               /\ Failed
               /\ StepOfMessage(resp.Message) = StepOfOp(events[i])
               /\ resp.args = <<events[i].err>>
               /\ (resp.Message = "Flutter tests failed: %v")
                  <=> (events[i].argv = FlutterTestCmd.argv)
       /\ (Failed /\ resp.Message # "Failed to parse pubspec.yaml: %v")
          => /\ ~cfg.DryRun
             /\ StepOfMessage(resp.Message) \in 1..5
             /\ GateOf(cfg, StepOfMessage(resp.Message))
             /\ resp.args # <<"nil">>
             /\ \A i \in 1..Len(events) :
                  StepOfOp(events[i]) <= StepOfMessage(resp.Message)

\* the format check failed after two steps succeeded, with both later steps
\* enabled and not run
C4_Witness ==
    /\ InPrePublish
    /\ Failed
    /\ resp.Message = "Format check failed: %v"
    /\ cfg.Test
    /\ cfg.DryRunValidate
    /\ StepsOf(events) = <<1, 2, 3>>

\* C5: in PrePublish a step whose gate is false is skipped in real and in
\* dry-run mode: its operation never runs, it never fails the hook, and the
\* enabled steps still run, each gate on its own
C5_DisabledStepSkipped ==
    InPrePublish
    => /\ \A k \in 1..5 :
            ~GateOf(cfg, k)
            => /\ \A i \in 1..Len(events) : StepOfOp(events[i]) # k
               /\ resp.returned => StepOfMessage(resp.Message) # k
       /\ ~cfg.UpdateVersion => file = file0
       /\ (resp.returned /\ resp.Success /\ ~cfg.DryRun)
          => StepsOf(events) = EnabledSteps(cfg)

\* a real run with analyze and test switched off ran the other three steps
C5_Witness ==
    /\ InPrePublish
    /\ ~cfg.DryRun
    /\ ~cfg.Analyze
    /\ ~cfg.Test
    /\ resp.returned
    /\ resp.Success
    /\ StepsOf(events) = <<1, 3, 5>>

\* the lines of a text that are not a top-level version line
OtherLines(t) == SelectSeq(SplitLines(t), LAMBDA l : ~IsTopVersionLine(l))

\* C8: PrePublish in real mode with update_version on and release version v:
\* once the version step has succeeded, parsing the manifest again yields
\* version = v, and every line but the version line is as it was before the
\* invocation
C8_ReparseAfterVersionStep ==
    (InPrePublish /\ ~cfg.DryRun /\ cfg.UpdateVersion /\ VersionBumped)
    => /\ ParsePubspec(fileExists, file).err = "nil"
       /\ ParsePubspec(fileExists, file).pub.Version = version
       /\ OtherLines(file) = OtherLines(file0)

\* C9: no rollback: once the version step of a PrePublish invocation has
\* written the new version, the manifest keeps it for the rest of the
\* invocation, also when a later step fails and the hook returns failure
C9_NoRollback ==
    (InPrePublish /\ VersionBumped)
    => /\ file = PatternReplaceAll(file0, version)
       /\ \E i \in 1..Len(SplitLines(file)) :
            SplitLines(file)[i] = VersionPrefix \o version
       /\ pc # "done" => ~resp.returned

\* a later step failed after the version step had changed the manifest
C9_Witness ==
    /\ InPrePublish
    /\ VersionBumped
    /\ Failed
    /\ StepOfMessage(resp.Message) \in 2..5
    /\ file # file0
    /\ file = PatternReplaceAll(file0, version)

\* C10: in both hooks a manifest that cannot be read or parsed ends the
\* invocation with Success=false, a message that embeds the cause, and no
\* further step (no write, no command, no publish), in dry-run mode too; and
\* every response of a hook comes with a nil Go error
C10_LoadFailureIsAResponse ==
    /\ resp.returned => resp.err = "nil"
    /\ \A i \in 1..Len(events) :
         (events[i].err # "nil" /\ events[i].argv[1] # "os.ReadFile")
         => Failed /\ resp.err = "nil"
    /\ (hook \in {"PrePublish", "PostPublish"}
        /\ ParsePubspec(fileExists, file0).err # "nil")
       => /\ events = <<>>
          /\ file = file0
          /\ pc \in {"pre_parse", "post_parse", "done"}
          /\ resp.returned
             => /\ ~resp.Success
                /\ resp.Message = "Failed to parse pubspec.yaml: %v"
                /\ resp.args = <<ParseCause(ParsePubspec(fileExists, file0).err)>>

\* PostPublish in dry-run mode failed on an unparseable manifest
C10_Witness ==
    /\ hook = "PostPublish"
    /\ cfg.DryRun
    /\ fileExists
    /\ ParsePubspec(fileExists, file0).err = "parse"
    /\ Failed
    /\ resp.err = "nil"
    /\ events = <<>>

(***************************************************************************)
(* Properties of PostPublish.                                              *)
(***************************************************************************)
InPostPublish == hook = "PostPublish"

\* the manifest the invocation began with parses
ManifestLoads == ParsePubspec(fileExists, file0).err = "nil"

\* the positions of the events that are a run of dart pub publish (the real
\* publish: the --dry-run form belongs to PrePublish)
PublishRuns ==
    {i \in 1..Len(events) :
       /\ Len(events[i].argv) >= 3
       /\ SubSeq(events[i].argv, 1, 3) = <<"dart", "pub", "publish">>
       /\ events[i].argv # PublishDryRunCmd.argv}

\* C11: PostPublish in dry-run mode on a manifest that loads, with or
\* without an access token: dart pub publish is never run, the manifest is
\* not touched, and the hook returns success with the message
\* "[DRY-RUN] Would publish <name>@<version> to pub.dev", which carries the
\* package name and the release version and is not the message of a real
\* publish
C11_DryRunPublishSimulated ==
    (InPostPublish /\ cfg.DryRun /\ ManifestLoads)
    => /\ PublishRuns = {}
       /\ file = file0
       /\ resp.returned
          => /\ resp.Success
             /\ resp.err = "nil"
             /\ resp.Message = "[DRY-RUN] Would publish %s@%s to pub.dev"
             /\ resp.Message # "Published %s@%s to pub.dev"
             /\ resp.args = <<ParsePubspec(fileExists, file0).pub.Name, version>>

\* a dry-run PostPublish with an access token returned for the package p
C11_Witness ==
    /\ InPostPublish
    /\ cfg.DryRun
    /\ cfg.AccessToken # ""
    /\ resp.returned
    /\ resp.Success
    /\ resp.args = <<<<"p">>, version>>
    /\ resp.Message = "[DRY-RUN] Would publish %s@%s to pub.dev"

(***************************************************************************)
(* Properties of PrePublish: the dry-run response and the validation of    *)
(* the manifest.                                                           *)
(***************************************************************************)
\* the manifest the invocation began with, as ParsePubspec returns it
Manifest0 == ParsePubspec(fileExists, file0).pub

AllGatesOn == \A k \in 1..5 : GateOf(cfg, k)

\* C12: PrePublish with every gate on and dry-run true on a valid manifest
\* returns success with the manifest unchanged on disk, and its message is
\* not the message a real successful run returns
C12_DryRunMessageSaysSimulated ==
    (/\ InPrePublish
     /\ cfg.DryRun
     /\ AllGatesOn
     /\ ManifestLoads
     /\ ValidatePubspec(Manifest0) = NoError
     /\ resp.returned)
    => /\ resp.Success
       /\ file = file0
       /\ events = <<>>
       /\ resp.Message # PreSuccessMessage(FALSE)

\* C13: in PrePublish with validate on, a manifest that parses and breaks a
\* rule of ValidatePubspec is refused before the version is written and
\* before any command is run
C13_ValidatedBeforeEffects ==
    (/\ InPrePublish
     /\ cfg.Validate
     /\ ManifestLoads
     /\ ValidatePubspec(Manifest0) # NoError)
    => /\ events = <<>>
       /\ file = file0
       /\ resp.returned => ~resp.Success

(***************************************************************************)
(* Properties of Validate.                                                 *)
(***************************************************************************)
Validated == call.op = "Validate"

\* the errors of the response that concern the manifest
ManifestErrors ==
    SelectSeq(call.Errors, LAMBDA x : x.Field \in {"pubspec", "pubspec_path"})

\* the errors with the given field
ErrorsOf(field) == SelectSeq(call.Errors, LAMBDA x : x.Field = field)

\* the manifest of the call parses and lacks nothing but the environment
LacksEnvironmentOnly ==
    /\ ParsePubspec(fileExists, file).err = "nil"
    /\ ValidatePubspec(ParsePubspec(fileExists, file).pub).msg
       = "environment section is required"

\* what the manifest contributes to the response: one "pubspec" error with
\* the first violated rule's message when it parses and breaks a rule, one
\* "pubspec_path" error when it cannot be read or parsed, nothing when it is
\* valid
ManifestContribution ==
    LET r == ParsePubspec(fileExists, file)
        e == ValidatePubspec(r.pub)
    IN  /\ r.err # "nil"
           => /\ Len(ManifestErrors) = 1
              /\ ManifestErrors[1].Field = "pubspec_path"
              /\ ManifestErrors[1].Message = "Invalid pubspec.yaml: %v"
              /\ ManifestErrors[1].arg = ParseCause(r.err)
        /\ (r.err = "nil" /\ e # NoError)
           => /\ Len(ManifestErrors) = 1
              /\ ManifestErrors[1].Field = "pubspec"
              /\ ManifestErrors[1].Message = e.msg
              /\ FailingRules(r.pub) # {}
              /\ ManifestErrors[1].Message
                 = ValidationRules(r.pub)[Min(FailingRules(r.pub))][2].msg
        /\ (r.err = "nil" /\ e = NoError) => ManifestErrors = <<>>

\* C14 as stated: Validate on a manifest that parses and lacks the
\* environment block returns a single error, field "pubspec", message
\* "environment section is required"; and the manifest contributes exactly
\* one error in general
C14_SingleManifestError ==
    Validated
    => /\ LacksEnvironmentOnly
          => /\ Len(call.Errors) = 1
             /\ call.Errors[1].Field = "pubspec"
             /\ call.Errors[1].Message = "environment section is required"
       /\ ManifestContribution

\* C14 amended: the manifest contributes exactly one error as stated; the
\* response holds that error alone when dart is found in PATH, and holds the
\* "dart" error before it (two errors) when dart is not found; the Go error
\* is nil
C14_ManifestErrorBesideDartError ==
    Validated
    => /\ ManifestContribution
       /\ call.err = "nil"
       /\ Len(ErrorsOf("dart")) = IF call.dartInPath THEN 0 ELSE 1
       /\ call.Errors = ErrorsOf("dart") \o ManifestErrors
       /\ LacksEnvironmentOnly
          => /\ Len(ManifestErrors) = 1
             /\ ManifestErrors[1].Field = "pubspec"
             /\ ManifestErrors[1].Message = "environment section is required"
             /\ Len(call.Errors) = IF call.dartInPath THEN 1 ELSE 2

\* Validate without dart in PATH on a manifest that lacks only the
\* environment block returned the dart error and the pubspec error
C14_Witness ==
    /\ Validated
    /\ ~call.dartInPath
    /\ LacksEnvironmentOnly
    /\ Len(call.Errors) = 2
    /\ call.Errors[2].Field = "pubspec"
    /\ call.Errors[2].Message = "environment section is required"

(***************************************************************************)
(* Properties of the test step.                                            *)
(***************************************************************************)
\* the positions of the events that are a run of a test runner
TestRuns == {i \in 1..Len(events) : StepOfOp(events[i]) = 4}

\* the invocation has gone through the test step
TestStepDone ==
    \/ pc \in {"pre_validate", "pre_return"}
    \/ /\ pc = "done"
       /\ resp.Success \/ StepOfMessage(resp.Message) \in {4, 5}

\* dart test with the three settings of the test configuration passed on
DartTestWith(tc) ==
    <<"dart", "test", "--platform", tc.Platform, "--concurrency",
      ToString(tc.Concurrency)>>
    \o (IF tc.Coverage THEN <<"--coverage">> ELSE <<>>)

\* C15: PrePublish in real mode with the test step on: one test runner is
\* run, never two; it is flutter test, with no argument from the test
\* configuration, iff the manifest parsed at the start of the invocation is
\* a Flutter package, and otherwise dart test with the configured platform,
\* concurrency and coverage
C15_OneTestRunner ==
    (InPrePublish /\ ~cfg.DryRun /\ cfg.Test /\ ManifestLoads)
    => /\ Cardinality(TestRuns) <= 1
       /\ TestStepDone => Cardinality(TestRuns) = 1
       /\ \A i \in TestRuns :
            /\ events[i].env = {}
            /\ IF IsFlutterPackage(Manifest0)
               THEN events[i].argv = <<"flutter", "test">>
               ELSE events[i].argv = DartTestWith(cfg.TestConfig)

\* flutter test was run, and passed, for a package that depends on flutter,
\* under a test configuration that is not the default one
C15_Witness ==
    /\ InPrePublish
    /\ ~cfg.DryRun
    /\ cfg.Test
    /\ cfg.TestConfig # TestConfigDefault
    /\ IsFlutterPackage(Manifest0)
    /\ TestStepDone
    /\ \E i \in TestRuns :
         events[i].argv = <<"flutter", "test">> /\ events[i].err = "nil"

(***************************************************************************)
(* Properties of the credentials of PostPublish.                           *)
(***************************************************************************)
\* the positions of the events that are a read of a credentials file
CredentialReads == {i \in 1..Len(events) : events[i].argv[1] = "os.ReadFile"}

\* the invocation has gone through the credentials step
CredentialsResolved ==
    InPostPublish /\ ManifestLoads /\ pc \in {"post_publish", "done"}

\* the PUB_TOKEN values of the environment of a command
TokensOf(e) == {kv[2] : kv \in {x \in e.env : x[1] = "PUB_TOKEN"}}

\* C16: the credentials of PostPublish. With an access token configured the
\* credentials are that token and no credentials file is read; without one
\* the file at the configured path (the default one for the empty path) is
\* read, once. When that load fails the hook goes on: in real mode dart pub
\* publish is run once, without a token, and the response is the success or
\* the failure of that run
C16_CredentialResolution ==
    CredentialsResolved
    => /\ cfg.AccessToken # ""
          => /\ CredentialReads = {}
             /\ dart.credentials = [isNil |-> FALSE, AccessToken |-> cfg.AccessToken]
             /\ \A i \in PublishRuns : TokensOf(events[i]) = {cfg.AccessToken}
       /\ cfg.AccessToken = ""
          => /\ CredentialReads = {1}
             /\ events[1].argv
                = <<"os.ReadFile", IF cfg.CredentialsPath = ""
                                   THEN "~/.pub-cache/credentials.json"
                                   ELSE cfg.CredentialsPath>>
             /\ events[1].err # "nil"
                => /\ dart.credentials.isNil
                   /\ pc = "done"
                      => /\ resp.returned
                         /\ resp.err = "nil"
                         /\ cfg.DryRun => resp.Success /\ PublishRuns = {}
                         /\ ~cfg.DryRun
                            => /\ PublishRuns = {2}
                               /\ Len(events) = 2
                               /\ TokensOf(events[2]) = {}
                               /\ resp.Success <=> events[2].err = "nil"
                               /\ ~resp.Success
                                  => /\ resp.Message = "Publish failed: %v"
                                     /\ resp.args = <<events[2].err>>

\* the credentials file at the configured path could not be read, and the
\* publish that followed, without a token, succeeded
C16_Witness ==
    /\ CredentialsResolved
    /\ cfg.AccessToken = ""
    /\ cfg.CredentialsPath # ""
    /\ ~cfg.DryRun
    /\ events[1].err = "failed to read credentials"
    /\ PublishRuns = {2}
    /\ events[2].err = "nil"
    /\ TokensOf(events[2]) = {}
    /\ resp.returned
    /\ resp.Success

(***************************************************************************)
(* Properties of the credentials.                                          *)
(***************************************************************************)
\* C17: for all credentials and every current time, IsExpired is false when
\* the expiration is 0 and otherwise true iff the time is strictly greater
\* than the expiration, and IsValid is true iff the access token is not
\* empty and IsExpired is false; credentials built from a token have that
\* token, expiration 0 and no refresh token, never expire, and are valid iff
\* the token is not empty
C17_ExpiryAndValidity ==
    /\ call.op \in {"IsValid", "CreateCredentialsFromToken"}
       => /\ call.creds.Expiration = 0 => ~call.expired
          /\ call.creds.Expiration # 0
             => (call.expired <=> call.now > call.creds.Expiration)
          /\ call.valid <=> (call.creds.AccessToken # "" /\ ~call.expired)
    /\ call.op = "CreateCredentialsFromToken"
       => /\ call.creds.AccessToken = call.token
          /\ call.creds.Expiration = 0
          /\ call.creds.RefreshToken = ""
          /\ ~call.expired
          /\ call.valid <=> call.token # ""

\* credentials with a token were asked at the very second of their
\* expiration and are still valid
C17_Witness ==
    /\ call.op = "IsValid"
    /\ call.creds.AccessToken # ""
    /\ call.creds.Expiration # 0
    /\ call.now = call.creds.Expiration
    /\ ~call.expired
    /\ call.valid

(***************************************************************************)
(* Properties of IsFlutterPackage.                                         *)
(***************************************************************************)
HasFlutterDependency(p) == \E k \in DOMAIN p.Dependencies.m : k = FlutterKey

HasFlutterEntries(p) == \E k \in DOMAIN p.Flutter.m : TRUE

\* C18: IsFlutterPackage is true iff the dependencies hold the key flutter,
\* whatever its value, or the flutter section has at least one entry; either
\* one is enough, and the result is false when both are missing, a flutter
\* section that is present and empty included
C18_FlutterDetection ==
    call.op = "IsFlutterPackage"
    => /\ call.result
          <=> (HasFlutterDependency(call.pubspec) \/ HasFlutterEntries(call.pubspec))
       /\ HasFlutterDependency(call.pubspec) => call.result
       /\ HasFlutterEntries(call.pubspec) => call.result
       /\ (/\ ~HasFlutterDependency(call.pubspec)
           /\ call.pubspec.Flutter \in {NilMap, [isNil |-> FALSE, m |-> <<>>]})
          => ~call.result

\* a package with other dependencies only and a flutter section that is
\* present and empty is not a Flutter package
C18_Witness ==
    /\ call.op = "IsFlutterPackage"
    /\ call.pubspec.Flutter = [isNil |-> FALSE, m |-> <<>>]
    /\ DOMAIN call.pubspec.Dependencies.m = {<<"h", "t", "t", "p">>}
    /\ ~call.result

(***************************************************************************)
(* Properties of the configuration.                                        *)
(***************************************************************************)
\* C19: an empty configuration yields update_version, validate, analyze,
\* format_check, test, dry_run_validate and force true, dry_run and coverage
\* false, platform "vm", concurrency 4 and the path pubspec.yaml; and the
\* dry-run mode of an Execute is the configured dry_run OR the flag of the
\* request: with either one every enabled step is simulated, and neither
\* switches off the other
C19_DefaultsAndDryRun ==
    call.op = "Execute"
    => /\ DOMAIN call.raw = {}
          => /\ call.parsed.UpdateVersion
             /\ call.parsed.Validate
             /\ call.parsed.Analyze
             /\ call.parsed.FormatCheck
             /\ call.parsed.Test
             /\ call.parsed.DryRunValidate
             /\ call.parsed.Force
             /\ ~call.parsed.DryRun
             /\ ~call.parsed.TestConfig.Coverage
             /\ call.parsed.TestConfig.Platform = "vm"
             /\ call.parsed.TestConfig.Concurrency = 4
             /\ call.parsed.PubspecPath = "pubspec.yaml"
             /\ call.env.PUB_ACCESS_TOKEN = ""
                => call.parsed = DefaultConfig
       /\ call.cfg.DryRun
          <=> \/ call.reqDryRun
              \/ "dry_run" \in DOMAIN call.raw /\ call.raw["dry_run"]
       /\ call.cfg = [call.parsed EXCEPT !.DryRun = call.cfg.DryRun]
       /\ call.cfg.DryRun
          => \A k \in 1..5 :
               GateMode(GateOf(call.cfg, k), call.cfg.DryRun)
               = IF GateOf(call.cfg, k) THEN "simulate" ELSE "skip"
       /\ ~call.cfg.DryRun
          => \A k \in 1..5 :
               GateMode(GateOf(call.cfg, k), call.cfg.DryRun)
               = IF GateOf(call.cfg, k) THEN "execute" ELSE "skip"

\* the configuration sets dry_run and the request does not ask for a dry
\* run: the invocation is a dry run, every gate at its default
C19_Witness ==
    /\ call.op = "Execute"
    /\ DOMAIN call.raw = {"dry_run"}
    /\ call.raw["dry_run"]
    /\ ~call.reqDryRun
    /\ call.cfg.DryRun
    /\ \A k \in 1..5 : GateOf(call.cfg, k)

(***************************************************************************)
(* Properties of the publish step.                                         *)
(***************************************************************************)
\* the registry URLs in the environment of a command
HostedURLsOf(e) == {kv[2] : kv \in {x \in e.env : x[1] = "PUB_HOSTED_URL"}}

\* C20: PostPublish in real mode on a manifest that loads runs dart pub
\* publish exactly once, as the last step: with --force iff force is true
\* and with the registry URL in its environment iff one is configured; the
\* hook fails, with the error of that run, iff the run fails, and otherwise
\* succeeds with a message that names the package and the version
C20_PublishOnce ==
    (InPostPublish /\ ~cfg.DryRun /\ ManifestLoads)
    => /\ pc # "done" => PublishRuns = {}
       /\ pc = "done"
          => /\ PublishRuns = {Len(events)}
             /\ LET e == events[Len(events)]
                IN  /\ e.argv = IF cfg.Force
                                THEN <<"dart", "pub", "publish", "--force">>
                                ELSE <<"dart", "pub", "publish">>
                    /\ HostedURLsOf(e)
                       = IF cfg.HostedURL = "" THEN {} ELSE {cfg.HostedURL}
                    /\ resp.returned
                    /\ resp.err = "nil"
                    /\ resp.Success <=> e.err = "nil"
                    /\ ~resp.Success
                       => /\ resp.Message = "Publish failed: %v"
                          /\ resp.args = <<e.err>>
                    /\ resp.Success
                       => /\ resp.Message = "Published %s@%s to pub.dev"
                          /\ resp.args = <<Manifest0.Name, version>>

\* a publish without --force to a configured registry succeeded for the
\* package p
C20_Witness ==
    /\ InPostPublish
    /\ ~cfg.DryRun
    /\ ~cfg.Force
    /\ cfg.HostedURL # ""
    /\ pc = "done"
    /\ resp.Success
    /\ resp.args = <<<<"p">>, version>>
    /\ PublishRuns = {Len(events)}
    /\ events[Len(events)].argv = <<"dart", "pub", "publish">>
    /\ HostedURLsOf(events[Len(events)]) = {cfg.HostedURL}


(***************************************************************************)
(* The writes of the manifest over the host's calls.                       *)
(***************************************************************************)
\* the positions of the events that are a write of the manifest
ManifestWrites == {i \in 1..Len(events) : StepOfOp(events[i]) = 1}

\* C21: the manifest is written by the version step of a real-mode PrePublish
\* with update_version on and by nothing else: every step that changes the
\* file is that step, an invocation writes at most once, a successful such
\* PrePublish has written exactly once, and PostPublish and Validate never
\* write
C21_SingleManifestWrite ==
    [][/\ (file' # file \/ fileExists' # fileExists)
          => /\ pc = "pre_update"
             /\ InPrePublish /\ ~cfg.DryRun /\ cfg.UpdateVersion
             /\ ManifestWrites' = ManifestWrites \cup {Len(events) + 1}
       /\ Cardinality(ManifestWrites') <= 1
       /\ (InPrePublish' /\ ~cfg'.DryRun /\ cfg'.UpdateVersion /\ resp'.Success)
          => Cardinality(ManifestWrites') = 1
       /\ (InPostPublish' \/ call'.op = "Validate") => ManifestWrites' = {}]_vars

\* a real-mode PrePublish with update_version on returned success, having
\* written the new version once
C21_Witness ==
    /\ InPrePublish /\ ~cfg.DryRun /\ cfg.UpdateVersion
    /\ resp.returned /\ resp.Success
    /\ Cardinality(ManifestWrites) = 1
    /\ file # file0


(***************************************************************************)
(* The order of the steps of PrePublish.                                   *)
(***************************************************************************)
\* the number of the step a position of PrePublish is about to take: 0 the
\* manifest load, 1..5 the gated steps, 6 the success response
StepOfPc(p) ==
    CASE p = "pre_parse" -> 0
      [] p = "pre_update" -> 1
      [] p = "pre_analyze" -> 2
      [] p = "pre_format" -> 3
      [] p = "pre_test" -> 4
      [] p = "pre_validate" -> 5
      [] OTHER -> 6

\* C22: in a PrePublish invocation the steps that act are the gated steps in
\* the order version update, analyze, format check, test, publish dry-run,
\* all after the manifest load; each acts at most once, a step acts only when
\* the steps before it are over and have not failed, and success is returned
\* only when every enabled step has acted and succeeded
C22_StepOrder ==
    InPrePublish
    => LET steps == StepsOf(events)
       IN  /\ \A i \in 1..Len(steps) : steps[i] \in 1..5
           /\ \A i, j \in 1..Len(steps) : i < j => steps[i] < steps[j]
           /\ \A i \in 1..Len(steps) : steps[i] < StepOfPc(pc)
           /\ \A i \in 1..(Len(events) - 1) : events[i].err = "nil"
           /\ events # <<>> => ManifestLoads
           /\ (resp.returned /\ resp.Success)
              => /\ steps = (IF cfg.DryRun THEN <<>> ELSE EnabledSteps(cfg))
                 /\ \A i \in 1..Len(events) : events[i].err = "nil"

\* a real-mode PrePublish with every gate on returned success after its five
\* steps
C22_Witness ==
    /\ InPrePublish /\ ~cfg.DryRun /\ AllGatesOn
    /\ resp.returned /\ resp.Success
    /\ StepsOf(events) = <<1, 2, 3, 4, 5>>


(***************************************************************************)
(* The reach of one match of the version pattern.                          *)
(***************************************************************************)
\* C23: a successful UpdateVersion(path, v) substitutes once on every line
\* the pattern matches and nowhere else: a match ends on the line it starts
\* on, so the file keeps its number of lines, every line that matches the
\* pattern becomes "version: v" and every line that does not is unchanged
C23_MatchStaysOnItsLine ==
    LET old == SplitLines(file0)
        new == SplitLines(file)
    IN  UpdateVersionSucceeded
        => /\ Len(new) = Len(old)
           /\ \A i \in 1..Len(old) :
                IF PatternMatch(old[i])
                THEN new[i] = VersionPrefix \o call.version
                ELSE new[i] = old[i]


(***************************************************************************)
(* The manifest under a write that fails.                                  *)
(***************************************************************************)
\* C24: UpdateVersion(path, v) never leaves a partly written manifest: after
\* the call, whatever it returned, the file holds the whole original text or
\* the whole updated text
C24_NoPartialWrite ==
    call.op = "UpdateVersion"
    => file \in {file0, PatternReplaceAll(file0, call.version)}


(***************************************************************************)
(* The arguments of the generic test runner.                               *)
(***************************************************************************)
\* the argument list holds the flag
HasFlag(argv, flag) == \E i \in 1..Len(argv) : argv[i] = flag

\* the argument list holds the flag followed by the value
HasOption(argv, flag, value) ==
    \E i \in 1..(Len(argv) - 1) : argv[i] = flag /\ argv[i + 1] = value

\* C25 as stated: dart test gets the platform iff it is non-empty, the
\* concurrency iff it is non-zero, negative values included, and --coverage
\* iff coverage is true
C25_ConcurrencyIffNonZero ==
    call.op = "Test"
    => /\ HasFlag(call.argv, "--platform") <=> call.cfg.Platform # ""
       /\ HasFlag(call.argv, "--concurrency") <=> call.cfg.Concurrency # 0
       /\ HasFlag(call.argv, "--coverage") <=> call.cfg.Coverage

\* C25: dart test gets --platform with the platform iff the platform is
\* non-empty, --concurrency with the number iff the concurrency is greater
\* than zero (a zero or negative concurrency is left out), and --coverage
\* iff coverage is true; the command is dart test and has no other argument
C25_ConcurrencyIffPositive ==
    call.op = "Test"
    => LET tc == call.cfg
           n == (IF tc.Platform # "" THEN 2 ELSE 0)
                + (IF tc.Concurrency > 0 THEN 2 ELSE 0)
                + (IF tc.Coverage THEN 1 ELSE 0)
       IN  /\ SubSeq(call.argv, 1, 2) = <<"dart", "test">>
           /\ Len(call.argv) = 2 + n
           /\ HasFlag(call.argv, "--platform") <=> tc.Platform # ""
           /\ tc.Platform # "" => HasOption(call.argv, "--platform", tc.Platform)
           /\ HasFlag(call.argv, "--concurrency") <=> tc.Concurrency > 0
           /\ tc.Concurrency > 0
              => HasOption(call.argv, "--concurrency", ToString(tc.Concurrency))
           /\ HasFlag(call.argv, "--coverage") <=> tc.Coverage

\* dart test was built for a negative concurrency, and without --concurrency
C25_Witness ==
    /\ call.op = "Test"
    /\ call.cfg.Concurrency < 0
    /\ ~HasFlag(call.argv, "--concurrency")


(***************************************************************************)
(* The two checks of Validate.                                             *)
(***************************************************************************)
\* the manifest of the Validate call cannot be read or parsed, or breaks a
\* validation rule
ManifestRefused ==
    LET r == ParsePubspec(fileExists, file)
    IN  r.err # "nil" \/ ValidatePubspec(r.pub) # NoError

\* C26: Validate collects: the response has a "dart" error iff dart is not in
\* PATH and a manifest error (field "pubspec_path" or "pubspec") iff the
\* manifest is unreadable or invalid, each whatever the other check found;
\* with dart missing and the manifest refused it holds both
C26_BothChecksRun ==
    Validated
    => /\ (ErrorsOf("dart") # <<>>) <=> ~call.dartInPath
       /\ (ManifestErrors # <<>>) <=> ManifestRefused
       /\ (~call.dartInPath /\ ManifestRefused)
          => /\ Len(call.Errors) = 2
             /\ {call.Errors[i].Field : i \in 1..2}
                \in {{"dart", "pubspec_path"}, {"dart", "pubspec"}}

\* Validate without dart in PATH and without a readable manifest returned the
\* dart error and the pubspec_path error
C26_Witness ==
    /\ Validated
    /\ ~call.dartInPath
    /\ ParsePubspec(fileExists, file).err # "nil"
    /\ Len(ErrorsOf("dart")) = 1
    /\ Len(ErrorsOf("pubspec_path")) = 1


(***************************************************************************)
(* A command cancelled by the caller.                                      *)
(***************************************************************************)
\* the command of the event ended with ctx cancelled
Cancelled(e) == "cancelled" \in DOMAIN e

\* the causes only a cancellation produces: the error of the context
CancellationCauses == {"context canceled"}

\* C27: a command that ends with the caller's ctx cancelled is the last
\* operation of the invocation: the hook has failed at that step, the cause
\* in its response is one that only a cancellation produces, and no later
\* step has run
C27_CancelledStepFails ==
    \A i \in 1..Len(events) :
      Cancelled(events[i])
      => /\ i = Len(events)
         /\ pc = "done"
         /\ Failed
         /\ InPrePublish => StepOfMessage(resp.Message) = StepOfOp(events[i])
         /\ InPostPublish => resp.Message = "Publish failed: %v"
         /\ resp.args[1] \in CancellationCauses


(***************************************************************************)
(* One invocation from start to response, and the next one.                *)
(***************************************************************************)
\* the variables of an invocation hold nothing of an earlier one
FreshInvocation ==
    /\ pubspec = ZeroPubspec
    /\ dart = NewDartCLI
    /\ events = <<>>
    /\ resp = NoResp
    /\ file0 = file

\* C28: every hook invocation starts with nothing left of an earlier one, at
\* its first step (the manifest load); every invocation reaches a response,
\* which is a success (with a nil error) or a failure and not both; after
\* the response nothing of the invocation is kept
C28_InvocationTerminates ==
    /\ [](pc \in {"pre_parse", "post_parse"} => FreshInvocation)
    /\ [](pc = "idle" => PipeIdle)
    /\ [](pc = "done" <=> resp.returned)
    /\ [](resp.returned => (resp.Success <=> ~Failed))
    /\ (pc # "idle") ~> (pc = "done")

\* a PostPublish invocation has returned success on a manifest that an
\* earlier PrePublish invocation had rewritten
C28_Witness ==
    /\ InPostPublish
    /\ pc = "done"
    /\ resp.Success
    /\ fileExists
    /\ file \notin LiveTexts


(***************************************************************************)
(* UpdateVersion applied twice.                                            *)
(***************************************************************************)
\* C29: UpdateVersion(path, v) called again after a successful call finds
\* the version field again, and when it returns nil the file is what the
\* first call left: applying it twice is applying it once
C29_Idempotent ==
    call.op = "UpdateVersionAgain"
    => /\ call.err # "version field not found in pubspec.yaml"
       /\ call.err = "nil" => file = call.once


(***************************************************************************)
(* Expired credentials in PostPublish.                                     *)
(***************************************************************************)
\* the Expiration of the credentials of the DartCLI (0 when none was set)
ExpirationOf(c) == IF "Expiration" \in DOMAIN c THEN c.Expiration ELSE 0

\* c.IsExpired() of the credentials of the DartCLI when the hook publishes
CredentialsExpired ==
    /\ ~dart.credentials.isNil
    /\ IsExpired([Expiration |-> ExpirationOf(dart.credentials)], PublishTime)

\* C30: PostPublish in real mode that has resolved its credentials and
\* returned: dart pub publish was run once, with PUB_TOKEN set to the access
\* token whenever the credentials hold a non-empty one, expired or not
\* (expired credentials with a token always have it handed over), and the
\* response is the success or failure of that run alone
C30_ExpiryNeverConsulted ==
    (CredentialsResolved /\ ~cfg.DryRun /\ pc = "done")
    => /\ PublishRuns = {Len(events)}
       /\ TokensOf(events[Len(events)])
          = (IF ~dart.credentials.isNil /\ dart.credentials.AccessToken # ""
             THEN {dart.credentials.AccessToken} ELSE {})
       /\ CredentialsExpired
          => TokensOf(events[Len(events)]) = {dart.credentials.AccessToken}
       /\ resp.Success <=> events[Len(events)].err = "nil"

\* credentials loaded from the file had expired before the publish, and the
\* publish ran with their token and succeeded
C30_Witness ==
    /\ CredentialsResolved /\ ~cfg.DryRun /\ pc = "done"
    /\ cfg.AccessToken = ""
    /\ CredentialsExpired
    /\ ~IsValid([AccessToken |-> dart.credentials.AccessToken,
                 Expiration |-> ExpirationOf(dart.credentials)], PublishTime)
    /\ PublishRuns = {2}
    /\ TokensOf(events[2]) = {"filetoken"}
    /\ resp.Success

====
